---------------------------- MODULE Spec2Model ----------------------------
(***************************************************************************)
(* Ultimate tic-tac-toe ("ultimate morpion"): the rules engine of          *)
(* src/src/morpion.rs, the move generator, heuristics and searches of      *)
(* src/src/ai.rs, and the scene (MorpionScene) that drives them from the   *)
(* update loop, the mouse and a worker thread.                             *)
(*                                                                         *)
(* Encoding of the Rust values:                                            *)
(*   Player            "X" | "O"                                           *)
(*   CellState         "Free" | "Tie" | "OccX" | "OccO"  (Occupied(p))     *)
(*   PlayingState      "Continue" | "Tie" | "WinX" | "WinO"  (Win(p))      *)
(*   Option<T>         <<>> for None, <<v>> for Some(v)                    *)
(*   [T; 9]            a function on 0..8                                  *)
(*   Morpion           [board : [cells, states], player, state,            *)
(*                      focused_big_cell]                                  *)
(***************************************************************************)
EXTENDS Integers, Sequences, FiniteSets, TLC

VARIABLES
    morpion,      \* MorpionScene.morpion : Morpion
    turn,         \* MorpionScene.turn
    clicked,      \* MorpionScene.clicked : Option<(usize, usize)>
    ai_channel,   \* MorpionScene.ai_channel : Option of the channel; <<msg>> holds what the channel buffers
    ai_thread,    \* MorpionScene.ai_thread : Option<JoinHandle>
    workers,      \* the spawned worker threads that have not finished yet
    mode,         \* the game_mode the caller passes to update
    line,         \* input driver: the game line the players follow (0: none)
    ply,          \* input driver: moves played since the last construction or reset
    dev,          \* input driver: moves played off the game line
    call,         \* search harness: the arguments of the last search call
    ret           \* search harness: what that call returned

vars == <<morpion, turn, clicked, ai_channel, ai_thread, workers, mode, line, ply, dev, call, ret>>

Idx == 0..8

Players == {"X", "O"}

None == <<>>

Some(v) == <<v>>

\* Player::other
other(p) == IF p = "X" THEN "O" ELSE "X"

\* CellState::Occupied(p)
Occupied(p) == IF p = "X" THEN "OccX" ELSE "OccO"

\* PlayingState::Win(p)
Win(p) == IF p = "X" THEN "WinX" ELSE "WinO"

\* Board::new
BoardNew ==
    [cells |-> [i \in Idx |-> [j \in Idx |-> "Free"]],
     states |-> [i \in Idx |-> "Free"]]

\* all_occupied: no slot of the array is Free
all_occupied(states) == \A k \in Idx : states[k] # "Free"

\* is_won_by without its last conjunction, the line 2, 4, 6
is_won_by_seven_lines(states, p) ==
    LET player == Occupied(p) IN
       (states[0] = player /\ states[1] = player /\ states[2] = player)
    \/ (states[3] = player /\ states[4] = player /\ states[5] = player)
    \/ (states[6] = player /\ states[7] = player /\ states[8] = player)
    \/ (states[0] = player /\ states[3] = player /\ states[6] = player)
    \/ (states[1] = player /\ states[4] = player /\ states[7] = player)
    \/ (states[2] = player /\ states[5] = player /\ states[8] = player)
    \/ (states[0] = player /\ states[4] = player /\ states[8] = player)

\* is_won_by: the eight conjunctions of the source, in its order
is_won_by(states, p) ==
    LET player == Occupied(p) IN
       (states[0] = player /\ states[1] = player /\ states[2] = player)
    \/ (states[3] = player /\ states[4] = player /\ states[5] = player)
    \/ (states[6] = player /\ states[7] = player /\ states[8] = player)
    \/ (states[0] = player /\ states[3] = player /\ states[6] = player)
    \/ (states[1] = player /\ states[4] = player /\ states[7] = player)
    \/ (states[2] = player /\ states[5] = player /\ states[8] = player)
    \/ (states[0] = player /\ states[4] = player /\ states[8] = player)
    \/ (states[2] = player /\ states[4] = player /\ states[6] = player)

\* Morpion::new
MorpionNew ==
    [board |-> BoardNew,
     player |-> "X",
     state |-> "Continue",
     focused_big_cell |-> None]

\* Morpion::is_over
is_over(node) == ~(node.state = "Continue")

\* index_is_playable without its first conjunct: a cell of a decided sub-board
\* stays playable
index_is_playable_any_state(node, ult_index, index) ==
    /\ node.board.cells[ult_index][index] = "Free"
    /\ \/ (node.focused_big_cell # None /\ node.focused_big_cell[1] = ult_index)
       \/ node.focused_big_cell = None

\* index_is_playable without its second conjunct: an Occupied cell of a Free
\* sub-board stays playable
index_is_playable_any_cell(node, ult_index, index) ==
    /\ node.board.states[ult_index] = "Free"
    /\ \/ (node.focused_big_cell # None /\ node.focused_big_cell[1] = ult_index)
       \/ node.focused_big_cell = None

\* Morpion::index_is_playable
index_is_playable(node, ult_index, index) ==
    /\ node.board.states[ult_index] = "Free"
    /\ node.board.cells[ult_index][index] = "Free"
    /\ \/ (node.focused_big_cell # None /\ node.focused_big_cell[1] = ult_index)
       \/ node.focused_big_cell = None

\* check_playing_state without its Tie arm
check_playing_state_never_tie(node) ==
    IF is_won_by(node.board.states, other(node.player))
    THEN Win(other(node.player))
    ELSE "Continue"

\* check_playing_state testing the player to move instead of the player who
\* has just moved
check_playing_state_mover(node) ==
    IF is_won_by(node.board.states, node.player)
    THEN Win(node.player)
    ELSE IF \/ all_occupied(node.board.states)
            \/ \A k \in Idx : node.board.states[k] = "Free"
                                 => all_occupied(node.board.cells[k])
         THEN "Tie"
         ELSE "Continue"

\* Morpion::check_playing_state
check_playing_state(node) ==
    IF is_won_by(node.board.states, other(node.player))
    THEN Win(other(node.player))
    ELSE IF \/ all_occupied(node.board.states)
            \/ \A k \in Idx : node.board.states[k] = "Free"
                                 => all_occupied(node.board.cells[k])
         THEN "Tie"
         ELSE "Continue"

\* play_at testing the nine aggregate states, instead of the nine cells of the
\* sub-board played in, for the sub-board tie
play_at_tie_on_states(node, ult_index, index) ==
    LET cells1 == [node.board.cells EXCEPT ![ult_index][index] = Occupied(node.player)]
        states1 ==
            IF is_won_by(cells1[ult_index], node.player)
            THEN [node.board.states EXCEPT ![ult_index] = Occupied(node.player)]
            ELSE IF all_occupied(node.board.states)
                 THEN [node.board.states EXCEPT ![ult_index] = "Tie"]
                 ELSE node.board.states
        focus1 == IF states1[index] = "Free" THEN Some(index) ELSE None
        n1 == [board |-> [cells |-> cells1, states |-> states1],
               player |-> other(node.player),
               state |-> node.state,
               focused_big_cell |-> focus1]
    IN  [n1 EXCEPT !.state = check_playing_state(n1)]

\* play_at reading the target sub-board's state before the move's own
\* sub-board has been updated
play_at_focus_first(node, ult_index, index) ==
    LET cells1 == [node.board.cells EXCEPT ![ult_index][index] = Occupied(node.player)]
        focus1 == IF node.board.states[index] = "Free" THEN Some(index) ELSE None
        states1 ==
            IF is_won_by(cells1[ult_index], node.player)
            THEN [node.board.states EXCEPT ![ult_index] = Occupied(node.player)]
            ELSE IF all_occupied(cells1[ult_index])
                 THEN [node.board.states EXCEPT ![ult_index] = "Tie"]
                 ELSE node.board.states
        n1 == [board |-> [cells |-> cells1, states |-> states1],
               player |-> other(node.player),
               state |-> node.state,
               focused_big_cell |-> focus1]
    IN  [n1 EXCEPT !.state = check_playing_state(n1)]

\* play_at always focusing the sub-board the cell index names
play_at_focus_always(node, ult_index, index) ==
    LET cells1 == [node.board.cells EXCEPT ![ult_index][index] = Occupied(node.player)]
        states1 ==
            IF is_won_by(cells1[ult_index], node.player)
            THEN [node.board.states EXCEPT ![ult_index] = Occupied(node.player)]
            ELSE IF all_occupied(cells1[ult_index])
                 THEN [node.board.states EXCEPT ![ult_index] = "Tie"]
                 ELSE node.board.states
        n1 == [board |-> [cells |-> cells1, states |-> states1],
               player |-> other(node.player),
               state |-> node.state,
               focused_big_cell |-> Some(index)]
    IN  [n1 EXCEPT !.state = check_playing_state(n1)]

\* play_at marking the cell just played, instead of the aggregate state, Tie
\* when the sub-board is full
play_at_tie_in_cell(node, ult_index, index) ==
    LET cells0 == [node.board.cells EXCEPT ![ult_index][index] = Occupied(node.player)]
        cells1 == IF ~is_won_by(cells0[ult_index], node.player)
                     /\ all_occupied(cells0[ult_index])
                  THEN [cells0 EXCEPT ![ult_index][index] = "Tie"]
                  ELSE cells0
        states1 ==
            IF is_won_by(cells0[ult_index], node.player)
            THEN [node.board.states EXCEPT ![ult_index] = Occupied(node.player)]
            ELSE IF all_occupied(cells0[ult_index])
                 THEN [node.board.states EXCEPT ![ult_index] = "Tie"]
                 ELSE node.board.states
        focus1 == IF states1[index] = "Free" THEN Some(index) ELSE None
        n1 == [board |-> [cells |-> cells1, states |-> states1],
               player |-> other(node.player),
               state |-> node.state,
               focused_big_cell |-> focus1]
    IN  [n1 EXCEPT !.state = check_playing_state(n1)]

\* play_at focusing the sub-board `index` when one of its cells is Free,
\* whatever its aggregate state
play_at_focus_on_cells(node, ult_index, index) ==
    LET cells1 == [node.board.cells EXCEPT ![ult_index][index] = Occupied(node.player)]
        states1 ==
            IF is_won_by(cells1[ult_index], node.player)
            THEN [node.board.states EXCEPT ![ult_index] = Occupied(node.player)]
            ELSE IF all_occupied(cells1[ult_index])
                 THEN [node.board.states EXCEPT ![ult_index] = "Tie"]
                 ELSE node.board.states
        focus1 == IF ~all_occupied(cells1[index]) THEN Some(index) ELSE None
        n1 == [board |-> [cells |-> cells1, states |-> states1],
               player |-> other(node.player),
               state |-> node.state,
               focused_big_cell |-> focus1]
    IN  [n1 EXCEPT !.state = check_playing_state(n1)]

\* play_at without `self.player = self.player.other()`
play_at_keeps_player(node, ult_index, index) ==
    LET cells1 == [node.board.cells EXCEPT ![ult_index][index] = Occupied(node.player)]
        states1 ==
            IF is_won_by(cells1[ult_index], node.player)
            THEN [node.board.states EXCEPT ![ult_index] = Occupied(node.player)]
            ELSE IF all_occupied(cells1[ult_index])
                 THEN [node.board.states EXCEPT ![ult_index] = "Tie"]
                 ELSE node.board.states
        focus1 == IF states1[index] = "Free" THEN Some(index) ELSE None
        n1 == [board |-> [cells |-> cells1, states |-> states1],
               player |-> node.player,
               state |-> node.state,
               focused_big_cell |-> focus1]
    IN  [n1 EXCEPT !.state = check_playing_state(n1)]

\* Morpion::play_at, statement by statement
play_at(node, ult_index, index) ==
    LET cells1 == [node.board.cells EXCEPT ![ult_index][index] = Occupied(node.player)]
        states1 ==
            IF is_won_by(cells1[ult_index], node.player)
            THEN [node.board.states EXCEPT ![ult_index] = Occupied(node.player)]
            ELSE IF all_occupied(cells1[ult_index])
                 THEN [node.board.states EXCEPT ![ult_index] = "Tie"]
                 ELSE node.board.states
        focus1 == IF states1[index] = "Free" THEN Some(index) ELSE None
        n1 == [board |-> [cells |-> cells1, states |-> states1],
               player |-> other(node.player),
               state |-> node.state,
               focused_big_cell |-> focus1]
    IN  [n1 EXCEPT !.state = check_playing_state(n1)]

\* reset leaving focused_big_cell as it is
MorpionReset_keeps_focus(node) ==
    [node EXCEPT !.board = BoardNew,
                 !.player = "X",
                 !.state = "Continue"]

\* Morpion::reset
MorpionReset(node) ==
    [node EXCEPT !.board = BoardNew,
                 !.player = "X",
                 !.state = "Continue",
                 !.focused_big_cell = None]


(***************************************************************************)
(* src/src/ai.rs                                                           *)
(***************************************************************************)

\* The (i, j) pairs in the order of the nested loops of generate_children
LoopPairs == [k \in 1..81 |-> <<(k - 1) \div 9, (k - 1) % 9>>]

\* generate_children with its two loops exchanged: j outside, i inside
generate_children_by_cell(node) ==
    LET pairs == [k \in 1..81 |-> <<(k - 1) % 9, (k - 1) \div 9>>]
        playable == SelectSeq(pairs, LAMBDA c : index_is_playable(node, c[1], c[2]))
    IN  [n \in 1..Len(playable) |-> play_at(node, playable[n][1], playable[n][2])]

\* generate_children: one clone + play_at per playable pair, pushed in loop order
generate_children(node) ==
    LET playable == SelectSeq(LoopPairs, LAMBDA c : index_is_playable(node, c[1], c[2]))
    IN  [n \in 1..Len(playable) |-> play_at(node, playable[n][1], playable[n][2])]

\* Stand-ins for isize::MIN and isize::MAX.  TLC's integers are 32 bits wide;
\* every score of the model lies strictly between the two, so they order
\* against scores exactly as the 64-bit extremes do.
isize_MAX == 2^30

isize_MIN == -(2^30)

WEIGHTS_CENTER == [k \in Idx |-> <<40, 10, 40, 10, 45, 10, 40, 10, 40>>[k + 1]]

WEIGHTS_CORNER == [k \in Idx |-> <<45, 10, 45, 10, 15, 10, 45, 10, 45>>[k + 1]]

WINNING_WEIGHT == 10000

\* Rust's % on isize: the remainder has the sign of the dividend
rem(a, b) == IF a >= 0 THEN a % b ELSE -((-a) % b)

max(a, b) == IF a >= b THEN a ELSE b

min(a, b) == IF a <= b THEN a ELSE b

\* dir
dir(actual_player, maximizing_player) ==
    IF actual_player = maximizing_player THEN 1 ELSE -1

\* `if let CellState::Occupied(player) = s { acc += dir(player, m) * w }`
occ_dir(s, maximizing_player) ==
    IF s = "OccX" THEN dir("X", maximizing_player)
    ELSE IF s = "OccO" THEN dir("O", maximizing_player)
    ELSE 0

\* the sum of f[0..8], accumulated in index order
sum9(f) == f[0] + f[1] + f[2] + f[3] + f[4] + f[5] + f[6] + f[7] + f[8]

\* weighted_heuristic adding the marks inside tied sub-boards as it does
\* those inside Free ones
weighted_heuristic_counts_tied(node, maximizing_player, weights) ==
    IF node.state = "Continue"
    THEN sum9([big_cell_index \in Idx |->
            LET st == node.board.states[big_cell_index] IN
            IF st = "OccX" \/ st = "OccO"
            THEN occ_dir(st, maximizing_player) * 50 * weights[big_cell_index]
            ELSE sum9([lil_cell_index \in Idx |->
                    occ_dir(node.board.cells[big_cell_index][lil_cell_index],
                            maximizing_player) * weights[lil_cell_index]])])
    ELSE IF node.state = "WinX" THEN dir("X", maximizing_player) * WINNING_WEIGHT
    ELSE IF node.state = "WinO" THEN dir("O", maximizing_player) * WINNING_WEIGHT
    ELSE 0

\* weighted_heuristic
weighted_heuristic(node, maximizing_player, weights) ==
    IF node.state = "Continue"
    THEN sum9([big_cell_index \in Idx |->
            LET st == node.board.states[big_cell_index] IN
            IF st = "OccX" \/ st = "OccO"
            THEN occ_dir(st, maximizing_player) * 50 * weights[big_cell_index]
            ELSE IF st = "Tie"
            THEN 0
            ELSE sum9([lil_cell_index \in Idx |->
                    occ_dir(node.board.cells[big_cell_index][lil_cell_index],
                            maximizing_player) * weights[lil_cell_index]])])
    ELSE IF node.state = "WinX" THEN dir("X", maximizing_player) * WINNING_WEIGHT
    ELSE IF node.state = "WinO" THEN dir("O", maximizing_player) * WINNING_WEIGHT
    ELSE 0

center_heuristic(node, maximizing_player) ==
    weighted_heuristic(node, maximizing_player, WEIGHTS_CENTER)

corner_heuristic(node, maximizing_player) ==
    weighted_heuristic(node, maximizing_player, WEIGHTS_CORNER)

\* evaluate_winning_sequence adding every line score, odd ones too
evaluate_winning_sequence_every_line(states, maximizing_player) ==
    LET d(k) == occ_dir(states[k], maximizing_player)
        row_score(row) == d(row * 3) + d(row * 3 + 1) + d(row * 3 + 2)
        col_score(row) == d(row) + d(3 + row) + d(6 + row)
        diag1_score == d(0) + d(4) + d(8)
        diag2_score == d(2) + d(4) + d(6)
    IN  row_score(0) + col_score(0)
      + row_score(1) + col_score(1)
      + row_score(2) + col_score(2)
      + diag1_score + diag2_score

\* evaluate_winning_sequence testing `score % 2 != 1` for the evenness of a
\* line score
evaluate_winning_sequence_not_one(states, maximizing_player) ==
    LET d(k) == occ_dir(states[k], maximizing_player)
        row_score(row) == d(row * 3) + d(row * 3 + 1) + d(row * 3 + 2)
        col_score(row) == d(row) + d(3 + row) + d(6 + row)
        even(x) == IF rem(x, 2) # 1 THEN x ELSE 0
        diag1_score == d(0) + d(4) + d(8)
        diag2_score == d(2) + d(4) + d(6)
    IN  even(row_score(0)) + even(col_score(0))
      + even(row_score(1)) + even(col_score(1))
      + even(row_score(2)) + even(col_score(2))
      + even(diag1_score) + even(diag2_score)

\* evaluate_winning_sequence: the row loop adds row_score and col_score when
\* even; diag1 reads states[row * 4], diag2 the cells with row + col == 2
evaluate_winning_sequence(states, maximizing_player) ==
    LET d(k) == occ_dir(states[k], maximizing_player)
        row_score(row) == d(row * 3) + d(row * 3 + 1) + d(row * 3 + 2)
        col_score(row) == d(row) + d(3 + row) + d(6 + row)
        even(x) == IF rem(x, 2) = 0 THEN x ELSE 0
        diag1_score == d(0) + d(4) + d(8)
        diag2_score == d(2) + d(4) + d(6)
    IN  even(row_score(0)) + even(col_score(0))
      + even(row_score(1)) + even(col_score(1))
      + even(row_score(2)) + even(col_score(2))
      + even(diag1_score) + even(diag2_score)

\* winning_sequence_heuristic
winning_sequence_heuristic(node, maximizing_player) ==
    IF node.state = "Continue"
    THEN evaluate_winning_sequence(node.board.states, maximizing_player) * 2
       + sum9([big_cell_index \in Idx |->
            LET st == node.board.states[big_cell_index] IN
            IF st = "OccX" \/ st = "OccO"
            THEN LET dr == occ_dir(st, maximizing_player) IN
                 dr * 5
                 + (IF big_cell_index = 4 THEN dr * 10
                    ELSE IF big_cell_index \in {0, 2, 6, 8} THEN dr * 3
                    ELSE 0)
            ELSE IF st = "Free"
            THEN evaluate_winning_sequence(node.board.cells[big_cell_index],
                                           maximizing_player)
                 + sum9([lil_cell_index \in Idx |->
                      LET dr == occ_dir(node.board.cells[big_cell_index][lil_cell_index],
                                        maximizing_player) IN
                      (IF lil_cell_index = 4 THEN dr * 3 ELSE 0)
                      + (IF big_cell_index = 4 THEN dr * 3 ELSE 0)])
            ELSE 0])
    ELSE IF node.state = "WinX" THEN dir("X", maximizing_player) * WINNING_WEIGHT
    ELSE IF node.state = "WinO" THEN dir("O", maximizing_player) * WINNING_WEIGHT
    ELSE 0

\* everywhere_heuristic adding its bonus on running games only
everywhere_heuristic_running_only(node, maximizing_player) ==
    winning_sequence_heuristic(node, maximizing_player)
    + (IF node.focused_big_cell = None /\ node.state = "Continue"
       THEN dir(node.player, maximizing_player) * 2
       ELSE 0)

\* everywhere_heuristic
everywhere_heuristic(node, maximizing_player) ==
    winning_sequence_heuristic(node, maximizing_player)
    + (IF node.focused_big_cell = None
       THEN dir(node.player, maximizing_player) * 2
       ELSE 0)

\* The heuristics a search can be given (the `heuristic` function argument)
Heuristics == {"corner", "center", "winning_sequence", "everywhere"}

\* the call heuristic(node, maximizing_player)
heuristic_call(heuristic, node, maximizing_player) ==
    CASE heuristic = "corner" -> corner_heuristic(node, maximizing_player)
      [] heuristic = "center" -> center_heuristic(node, maximizing_player)
      [] heuristic = "winning_sequence" -> winning_sequence_heuristic(node, maximizing_player)
      [] heuristic = "everywhere" -> everywhere_heuristic(node, maximizing_player)

\* The searches return [value, expanded, evaluated]: value is the isize the
\* Rust function returns, expanded counts the generate_children calls the
\* call made (itself and its recursive calls) and evaluated the heuristic
\* calls, which together are the nodes the search visited.
\*
\* A `for child in generate_children(node)` loop is the left-to-right pass
\* over children[lo..hi] that carries the loop's variables in acc; the pass
\* over a range is the pass over its first half followed by the pass over its
\* second half, which keeps the evaluation stack shallow for 81 children.
RECURSIVE minimax(_, _, _, _), minimax_loop(_, _, _, _, _, _, _, _)

\* the loops of minimax: value = value.max(..) when maximizing, value.min(..) otherwise
minimax_loop(children, lo, hi, acc, maximizing, depth, maximizing_player, heuristic) ==
    IF lo > hi
    THEN acc
    ELSE IF lo = hi
    THEN LET r == minimax(children[lo], depth - 1, maximizing_player, heuristic)
         IN  [value |-> IF maximizing THEN max(acc.value, r.value)
                                      ELSE min(acc.value, r.value),
              expanded |-> acc.expanded + r.expanded,
              evaluated |-> acc.evaluated + r.evaluated]
    ELSE LET mid == (lo + hi) \div 2
             first == minimax_loop(children, lo, mid, acc,
                                   maximizing, depth, maximizing_player, heuristic)
         IN  IF first.expanded >= 0   \* the first half is passed before the second
             THEN minimax_loop(children, mid + 1, hi, first,
                               maximizing, depth, maximizing_player, heuristic)
             ELSE first

\* minimax cutting off on depth alone
minimax_depth_only(node, depth, maximizing_player, heuristic) ==
    IF depth = 0
    THEN [value |-> heuristic_call(heuristic, node, maximizing_player),
          expanded |-> 0, evaluated |-> 1]
    ELSE LET children == generate_children(node)
         IN  IF node.player = maximizing_player
             THEN minimax_loop(children, 1, Len(children),
                               [value |-> isize_MIN, expanded |-> 1, evaluated |-> 0],
                               TRUE, depth, maximizing_player, heuristic)
             ELSE minimax_loop(children, 1, Len(children),
                               [value |-> isize_MAX, expanded |-> 1, evaluated |-> 0],
                               FALSE, depth, maximizing_player, heuristic)

\* minimax
minimax(node, depth, maximizing_player, heuristic) ==
    IF node.state # "Continue" \/ depth = 0
    THEN [value |-> heuristic_call(heuristic, node, maximizing_player),
          expanded |-> 0, evaluated |-> 1]
    ELSE LET children == generate_children(node)
         IN  IF node.player = maximizing_player
             THEN minimax_loop(children, 1, Len(children),
                               [value |-> isize_MIN, expanded |-> 1, evaluated |-> 0],
                               TRUE, depth, maximizing_player, heuristic)
             ELSE minimax_loop(children, 1, Len(children),
                               [value |-> isize_MAX, expanded |-> 1, evaluated |-> 0],
                               FALSE, depth, maximizing_player, heuristic)

RECURSIVE alpha_beta(_, _, _, _, _, _), alpha_beta_max(_, _, _, _, _, _, _), alpha_beta_min(_, _, _, _, _, _, _)

\* the maximizing loop breaking on `value > alpha`
alpha_beta_max_on_alpha(children, lo, hi, acc, depth, maximizing_player, heuristic) ==
    IF lo > hi \/ acc.broke
    THEN acc
    ELSE IF lo = hi
    THEN LET r == alpha_beta(children[lo], depth - 1, acc.alpha, acc.beta,
                             maximizing_player, heuristic)
             value == max(acc.value, r.value)
         IN  [value |-> value,
              alpha |-> IF value > acc.alpha THEN acc.alpha ELSE max(acc.alpha, value),
              beta |-> acc.beta,
              expanded |-> acc.expanded + r.expanded,
              evaluated |-> acc.evaluated + r.evaluated,
              broke |-> value > acc.alpha]
    ELSE LET mid == (lo + hi) \div 2
             first == alpha_beta_max(children, lo, mid, acc, depth, maximizing_player, heuristic)
         IN  IF first.broke
             THEN first
             ELSE alpha_beta_max(children, mid + 1, hi, first,
                                 depth, maximizing_player, heuristic)

\* the maximizing loop of alpha_beta; acc = [value, alpha, beta, expanded, evaluated, broke],
\* broke once `value > beta` took the break
alpha_beta_max(children, lo, hi, acc, depth, maximizing_player, heuristic) ==
    IF lo > hi \/ acc.broke
    THEN acc
    ELSE IF lo = hi
    THEN LET r == alpha_beta(children[lo], depth - 1, acc.alpha, acc.beta,
                             maximizing_player, heuristic)
             value == max(acc.value, r.value)
         IN  [value |-> value,
              alpha |-> IF value > acc.beta THEN acc.alpha ELSE max(acc.alpha, value),
              beta |-> acc.beta,
              expanded |-> acc.expanded + r.expanded,
              evaluated |-> acc.evaluated + r.evaluated,
              broke |-> value > acc.beta]
    ELSE LET mid == (lo + hi) \div 2
             first == alpha_beta_max(children, lo, mid, acc, depth, maximizing_player, heuristic)
         IN  IF first.broke
             THEN first
             ELSE alpha_beta_max(children, mid + 1, hi, first,
                                 depth, maximizing_player, heuristic)

\* the minimizing loop breaking on `value < beta`
alpha_beta_min_on_beta(children, lo, hi, acc, depth, maximizing_player, heuristic) ==
    IF lo > hi \/ acc.broke
    THEN acc
    ELSE IF lo = hi
    THEN LET r == alpha_beta(children[lo], depth - 1, acc.alpha, acc.beta,
                             maximizing_player, heuristic)
             value == min(acc.value, r.value)
         IN  [value |-> value,
              alpha |-> acc.alpha,
              beta |-> IF value < acc.beta THEN acc.beta ELSE min(acc.beta, value),
              expanded |-> acc.expanded + r.expanded,
              evaluated |-> acc.evaluated + r.evaluated,
              broke |-> value < acc.beta]
    ELSE LET mid == (lo + hi) \div 2
             first == alpha_beta_min(children, lo, mid, acc, depth, maximizing_player, heuristic)
         IN  IF first.broke
             THEN first
             ELSE alpha_beta_min(children, mid + 1, hi, first,
                                 depth, maximizing_player, heuristic)

\* the minimizing loop of alpha_beta: break on `value < alpha`
alpha_beta_min(children, lo, hi, acc, depth, maximizing_player, heuristic) ==
    IF lo > hi \/ acc.broke
    THEN acc
    ELSE IF lo = hi
    THEN LET r == alpha_beta(children[lo], depth - 1, acc.alpha, acc.beta,
                             maximizing_player, heuristic)
             value == min(acc.value, r.value)
         IN  [value |-> value,
              alpha |-> acc.alpha,
              beta |-> IF value < acc.alpha THEN acc.beta ELSE min(acc.beta, value),
              expanded |-> acc.expanded + r.expanded,
              evaluated |-> acc.evaluated + r.evaluated,
              broke |-> value < acc.alpha]
    ELSE LET mid == (lo + hi) \div 2
             first == alpha_beta_min(children, lo, mid, acc, depth, maximizing_player, heuristic)
         IN  IF first.broke
             THEN first
             ELSE alpha_beta_min(children, mid + 1, hi, first,
                                 depth, maximizing_player, heuristic)

\* alpha_beta scaling the cutoff value by depth instead of depth + 1
alpha_beta_scale_depth(node, depth, alpha, beta, maximizing_player, heuristic) ==
    IF node.state # "Continue" \/ depth = 0
    THEN [value |-> heuristic_call(heuristic, node, maximizing_player) * depth,
          expanded |-> 0, evaluated |-> 1]
    ELSE LET children == generate_children(node)
             loop == IF node.player = maximizing_player
                     THEN alpha_beta_max(children, 1, Len(children),
                              [value |-> isize_MIN, alpha |-> alpha, beta |-> beta,
                               expanded |-> 1, evaluated |-> 0, broke |-> FALSE],
                              depth, maximizing_player, heuristic)
                     ELSE alpha_beta_min(children, 1, Len(children),
                              [value |-> isize_MAX, alpha |-> alpha, beta |-> beta,
                               expanded |-> 1, evaluated |-> 0, broke |-> FALSE],
                              depth, maximizing_player, heuristic)
         IN  [value |-> loop.value, expanded |-> loop.expanded,
              evaluated |-> loop.evaluated]

\* alpha_beta returning the heuristic as it is at a cutoff, as minimax does
alpha_beta_unscaled(node, depth, alpha, beta, maximizing_player, heuristic) ==
    IF node.state # "Continue" \/ depth = 0
    THEN [value |-> heuristic_call(heuristic, node, maximizing_player),
          expanded |-> 0, evaluated |-> 1]
    ELSE LET children == generate_children(node)
             loop == IF node.player = maximizing_player
                     THEN alpha_beta_max(children, 1, Len(children),
                              [value |-> isize_MIN, alpha |-> alpha, beta |-> beta,
                               expanded |-> 1, evaluated |-> 0, broke |-> FALSE],
                              depth, maximizing_player, heuristic)
                     ELSE alpha_beta_min(children, 1, Len(children),
                              [value |-> isize_MAX, alpha |-> alpha, beta |-> beta,
                               expanded |-> 1, evaluated |-> 0, broke |-> FALSE],
                              depth, maximizing_player, heuristic)
         IN  [value |-> loop.value, expanded |-> loop.expanded,
              evaluated |-> loop.evaluated]

\* alpha_beta
alpha_beta(node, depth, alpha, beta, maximizing_player, heuristic) ==
    IF node.state # "Continue" \/ depth = 0
    THEN [value |-> heuristic_call(heuristic, node, maximizing_player) * (depth + 1),
          expanded |-> 0, evaluated |-> 1]
    ELSE LET children == generate_children(node)
             loop == IF node.player = maximizing_player
                     THEN alpha_beta_max(children, 1, Len(children),
                              [value |-> isize_MIN, alpha |-> alpha, beta |-> beta,
                               expanded |-> 1, evaluated |-> 0, broke |-> FALSE],
                              depth, maximizing_player, heuristic)
                     ELSE alpha_beta_min(children, 1, Len(children),
                              [value |-> isize_MAX, alpha |-> alpha, beta |-> beta,
                               expanded |-> 1, evaluated |-> 0, broke |-> FALSE],
                              depth, maximizing_player, heuristic)
         IN  [value |-> loop.value, expanded |-> loop.expanded,
              evaluated |-> loop.evaluated]

(***************************************************************************)
(* Morpion::ai_move (src/src/morpion.rs)                                   *)
(***************************************************************************)

AILevels == {"Easy", "Medium", "Hard"}

\* the depth argument of the alpha_beta call of each arm of `match ai_level`
level_depth(ai_level) == IF ai_level = "Easy" THEN 5 ELSE 6

\* the heuristic argument of the alpha_beta call of each arm
level_heuristic(ai_level) ==
    CASE ai_level = "Easy" -> "corner"
      [] ai_level = "Medium" -> "center"
      [] ai_level = "Hard" -> "everywhere"

\* noise(range): the values rng.random_range(-range..range) can return
noise(range) == (-range)..(range - 1)

\* the score with the noise added and no scaling
final_score_unscaled(score, draw) == score + draw

\* score += score * 10 + noise(2), for the value `draw` that noise(2) returned
final_score(score, draw) == score + (score * 10 + draw)

\* the values the alpha_beta calls of the loop return, child by child
ai_scores(node, ai_level) ==
    LET children == generate_children(node)
    IN  [n \in 1..Len(children) |->
            alpha_beta(children[n], level_depth(ai_level), isize_MIN, isize_MAX,
                       node.player, level_heuristic(ai_level)).value]

\* The loop of ai_move over children[lo..hi] (1-based here, `index` is
\* lo - 1), given the alpha_beta scores and the noise drawn for each child;
\* acc = [max_score, best_move_index].  As for the searches, the pass over a
\* range is the pass over its first half followed by the pass over its
\* second half.
RECURSIVE ai_move_loop(_, _, _, _, _)

\* the loop with `score >= max_score`
ai_move_loop_last_wins(scores, draws, lo, hi, acc) ==
    IF lo > hi
    THEN acc
    ELSE IF lo = hi
    THEN LET score == final_score(scores[lo], draws[lo])
         IN  IF score >= acc.max_score
             THEN [max_score |-> score, best_move_index |-> lo - 1]
             ELSE acc
    ELSE LET mid == (lo + hi) \div 2
             first == ai_move_loop(scores, draws, lo, mid, acc)
         IN  IF first.best_move_index >= 0
             THEN ai_move_loop(scores, draws, mid + 1, hi, first)
             ELSE first

\* the loop keeping the 1-based position of the child as its index
ai_move_loop_one_based(scores, draws, lo, hi, acc) ==
    IF lo > hi
    THEN acc
    ELSE IF lo = hi
    THEN LET score == final_score(scores[lo], draws[lo])
         IN  IF score > acc.max_score
             THEN [max_score |-> score, best_move_index |-> lo]
             ELSE acc
    ELSE LET mid == (lo + hi) \div 2
             first == ai_move_loop(scores, draws, lo, mid, acc)
         IN  IF first.best_move_index >= 0
             THEN ai_move_loop(scores, draws, mid + 1, hi, first)
             ELSE first

\* the loop keeping the score without its noise as max_score
ai_move_loop_keeps_unnoised(scores, draws, lo, hi, acc) ==
    IF lo > hi
    THEN acc
    ELSE IF lo = hi
    THEN LET score == final_score(scores[lo], draws[lo])
         IN  IF score > acc.max_score
             THEN [max_score |-> final_score(scores[lo], 0), best_move_index |-> lo - 1]
             ELSE acc
    ELSE LET mid == (lo + hi) \div 2
             first == ai_move_loop(scores, draws, lo, mid, acc)
         IN  IF first.best_move_index >= 0
             THEN ai_move_loop(scores, draws, mid + 1, hi, first)
             ELSE first

ai_move_loop(scores, draws, lo, hi, acc) ==
    IF lo > hi
    THEN acc
    ELSE IF lo = hi
    THEN LET score == final_score(scores[lo], draws[lo])
         IN  IF score > acc.max_score
             THEN [max_score |-> score, best_move_index |-> lo - 1]
             ELSE acc
    ELSE LET mid == (lo + hi) \div 2
             first == ai_move_loop(scores, draws, lo, mid, acc)
         IN  IF first.best_move_index >= 0
             THEN ai_move_loop(scores, draws, mid + 1, hi, first)
             ELSE first

\* best_move_index after the loop
best_move_index(scores, draws) ==
    ai_move_loop(scores, draws, 1, Len(scores),
                 [max_score |-> isize_MIN, best_move_index |-> 0]).best_move_index

\* the thread panicking: index out of bounds
Panic == [panic |-> "index out of bounds"]

\* children[best_move_index].clone(); indexing past the end of the Vec panics
children_at(children, index) ==
    IF index < Len(children) THEN children[index + 1] ELSE Panic

\* ai_move, for the values `draws` that the calls of noise(2) return: the
\* body after the children and their alpha_beta scores are known, and the
\* whole function
ai_move_from(children, scores, draws) ==
    children_at(children, best_move_index(scores, draws))

ai_move(node, ai_level, draws) ==
    ai_move_from(generate_children(node), ai_scores(node, ai_level), draws)

(***************************************************************************)
(* The nodes of the searches as objects                                    *)
(*                                                                         *)
(* A heap is the sequence of the Morpion objects alive, the address of an  *)
(* object its position in it.  `node: &Morpion` is an address; clone()     *)
(* makes a new object; play_at(&mut self, ..) changes an object in place;  *)
(* a Vec<Morpion> going out of scope frees the objects it holds.           *)
(***************************************************************************)

\* a clone() that hands back the object it was called on
clone_same_object(heap, node) == [heap |-> heap, addr |-> node]

\* node.clone(): a new object equal to the one at `node`, and its address
clone(heap, node) == [heap |-> Append(heap, heap[node]), addr |-> Len(heap) + 1]

\* new_node.play_at(i, j): the object at `node` after the move, the others as
\* they were
play_at_mut(heap, node, ult_index, index) ==
    [heap EXCEPT ![node] = play_at(heap[node], ult_index, index)]

\* self.reset() through &mut self
reset_mut(heap, node) == [heap EXCEPT ![node] = MorpionReset(heap[node])]

\* the end of the scope of a `children` Vec: the objects allocated since the
\* heap held `mark` objects are freed
drop_children(heap, mark) == SubSeq(heap, 1, IF mark < Len(heap) THEN mark ELSE Len(heap))

\* The loops of generate_children over LoopPairs[lo..hi];
\* acc = [heap, children], children the addresses pushed so far.  The pass
\* over a range is the pass over its first half followed by the pass over its
\* second half.
RECURSIVE generate_children_loop(_, _, _, _)

generate_children_loop(node, lo, hi, acc) ==
    IF lo > hi
    THEN acc
    ELSE IF lo = hi
    THEN LET i == LoopPairs[lo][1]
             j == LoopPairs[lo][2]
         IN  IF index_is_playable(acc.heap[node], i, j)
             THEN LET new_node == clone(acc.heap, node)
                  IN  [heap |-> play_at_mut(new_node.heap, new_node.addr, i, j),
                       children |-> Append(acc.children, new_node.addr)]
             ELSE acc
    ELSE LET mid == (lo + hi) \div 2
             first == generate_children_loop(node, lo, mid, acc)
         IN  IF Len(first.heap) > 0   \* the first half is passed before the second
             THEN generate_children_loop(node, mid + 1, hi, first)
             ELSE first

\* generate_children(node) on the heap: the heap with the children in it and
\* their addresses in the order they were pushed
generate_children_in(heap, node) ==
    generate_children_loop(node, 1, Len(LoopPairs), [heap |-> heap, children |-> <<>>])

RECURSIVE minimax_in(_, _, _), minimax_in_loop(_, _, _, _, _)

\* the loop of minimax over children[lo..hi]: the heap after the recursive
\* calls (the values play no part in what minimax does to the heap)
minimax_in_loop(heap, children, lo, hi, depth) ==
    IF lo > hi
    THEN heap
    ELSE IF lo = hi
    THEN minimax_in(heap, children[lo], depth - 1)
    ELSE LET mid == (lo + hi) \div 2
             first == minimax_in_loop(heap, children, lo, mid, depth)
         IN  IF Len(first) > 0   \* the first half is passed before the second
             THEN minimax_in_loop(first, children, mid + 1, hi, depth)
             ELSE first

\* the heap after minimax(node, depth, ..): the children are generated,
\* searched one by one and freed at the return
minimax_in(heap, node, depth) ==
    IF heap[node].state # "Continue" \/ depth = 0
    THEN heap
    ELSE LET generated == generate_children_in(heap, node)
         IN  drop_children(minimax_in_loop(generated.heap, generated.children, 1,
                                           Len(generated.children), depth),
                           Len(heap))

RECURSIVE alpha_beta_in(_, _, _, _, _, _, _), alpha_beta_in_loop(_, _, _, _, _, _, _, _)

\* the two loops of alpha_beta over children[lo..hi];
\* acc = [value, alpha, beta, heap, broke]
alpha_beta_in_loop(children, lo, hi, acc, maximizing, depth, maximizing_player, heuristic) ==
    IF lo > hi \/ acc.broke
    THEN acc
    ELSE IF lo = hi
    THEN LET r == alpha_beta_in(acc.heap, children[lo], depth - 1, acc.alpha, acc.beta,
                                maximizing_player, heuristic)
             value == IF maximizing THEN max(acc.value, r.value) ELSE min(acc.value, r.value)
             broke == IF maximizing THEN value > acc.beta ELSE value < acc.alpha
         IN  [value |-> value,
              alpha |-> IF maximizing /\ ~broke THEN max(acc.alpha, value) ELSE acc.alpha,
              beta |-> IF ~maximizing /\ ~broke THEN min(acc.beta, value) ELSE acc.beta,
              heap |-> r.heap,
              broke |-> broke]
    ELSE LET mid == (lo + hi) \div 2
             first == alpha_beta_in_loop(children, lo, mid, acc, maximizing, depth,
                                         maximizing_player, heuristic)
         IN  IF first.broke
             THEN first
             ELSE alpha_beta_in_loop(children, mid + 1, hi, first, maximizing, depth,
                                     maximizing_player, heuristic)

\* alpha_beta(node, depth, alpha, beta, ..) on the heap: the value returned
\* and the heap at the return
alpha_beta_in(heap, node, depth, alpha, beta, maximizing_player, heuristic) ==
    IF heap[node].state # "Continue" \/ depth = 0
    THEN [value |-> heuristic_call(heuristic, heap[node], maximizing_player) * (depth + 1),
          heap |-> heap]
    ELSE LET generated == generate_children_in(heap, node)
             maximizing == heap[node].player = maximizing_player
             loop == alpha_beta_in_loop(generated.children, 1, Len(generated.children),
                         [value |-> IF maximizing THEN isize_MIN ELSE isize_MAX,
                          alpha |-> alpha, beta |-> beta, heap |-> generated.heap,
                          broke |-> FALSE],
                         maximizing, depth, maximizing_player, heuristic)
         IN  [value |-> loop.value, heap |-> drop_children(loop.heap, Len(heap))]

\* the alpha_beta calls of the loop of ai_move over children[n..];
\* acc = [scores, heap]
RECURSIVE ai_scores_in(_, _, _, _, _)

ai_scores_in(children, n, acc, ai_level, player) ==
    IF n > Len(children)
    THEN acc
    ELSE LET r == alpha_beta_in(acc.heap, children[n], level_depth(ai_level), isize_MIN,
                                isize_MAX, player, level_heuristic(ai_level))
         IN  IF Len(r.heap) > 0   \* the call returns before the next is made
             THEN ai_scores_in(children, n + 1,
                               [scores |-> Append(acc.scores, r.value), heap |-> r.heap],
                               ai_level, player)
             ELSE acc

\* the first statements of ai_move: the children generated and searched;
\* [heap, children, scores]
ai_move_searched(heap, node, ai_level) ==
    LET generated == generate_children_in(heap, node)
        searched == ai_scores_in(generated.children, 1,
                                 [scores |-> <<>>, heap |-> generated.heap],
                                 ai_level, heap[node].player)
    IN  [heap |-> searched.heap, children |-> generated.children,
         scores |-> searched.scores]

\* the end of ai_move, for the values `draws` that the calls of noise(2)
\* returned: children[best_move_index].clone() and the children freed.  The
\* heap at the return and the address of the object returned, None when
\* indexing the Vec panics and ai_move returns nothing; `mark` is the size of
\* the heap at the call.
ai_move_return(mark, searched, draws) ==
    LET best == best_move_index(searched.scores, draws)
    IN  IF best < Len(searched.children)
        THEN LET returned == clone(searched.heap, searched.children[best + 1])
             IN  [heap |-> Append(drop_children(returned.heap, mark),
                                  returned.heap[returned.addr]),
                  result |-> Some(mark + 1)]
        ELSE [heap |-> drop_children(searched.heap, mark), result |-> None]

\* self.ai_move(ai_level) on the heap
ai_move_in(heap, node, ai_level, draws) ==
    ai_move_return(Len(heap), ai_move_searched(heap, node, ai_level), draws)

(***************************************************************************)
(* The inputs.  A game of 81 cells cannot be explored move by move from    *)
(* the empty board, so the players (humans clicking, or the move an AI     *)
(* search returns) follow one of three complete games, each legal move by  *)
(* move from Morpion::new(), and leave it for at most a bounded number of  *)
(* arbitrary legal moves.  The three games end in Win(X), Win(O) and Tie;  *)
(* between them they win and tie sub-boards, send the opponent to won and  *)
(* to tied sub-boards, and win and tie a sub-board by playing the cell     *)
(* whose index is the sub-board's own.                                     *)
(***************************************************************************)
\* 23 moves, X wins sub-boards 0, 4, 8
LineXWins ==
    << <<4, 4>>, <<4, 0>>, <<0, 0>>, <<0, 8>>, <<8, 2>>, <<2, 8>>, <<8, 4>>, <<4, 8>>,
       <<8, 7>>, <<7, 8>>, <<8, 1>>, <<1, 3>>, <<3, 6>>, <<6, 8>>, <<0, 6>>, <<6, 0>>,
       <<0, 3>>, <<3, 4>>, <<4, 5>>, <<5, 5>>, <<5, 6>>, <<6, 4>>, <<4, 3>> >>

\* 24 moves, O wins sub-boards 1, 4, 7
LineOWins ==
    << <<4, 4>>, <<4, 8>>, <<8, 5>>, <<5, 0>>, <<0, 7>>, <<7, 6>>, <<6, 1>>, <<1, 3>>,
       <<3, 1>>, <<1, 6>>, <<6, 4>>, <<4, 7>>, <<7, 1>>, <<1, 1>>, <<1, 7>>, <<7, 3>>,
       <<3, 7>>, <<7, 8>>, <<8, 1>>, <<1, 0>>, <<0, 4>>, <<4, 6>>, <<6, 7>>, <<7, 0>> >>

\* 53 moves, every sub-board decided and no line of three: Tie
LineTie ==
    << <<8, 4>>, <<4, 2>>, <<2, 8>>, <<8, 1>>, <<1, 6>>, <<6, 7>>, <<7, 4>>, <<4, 3>>,
       <<3, 1>>, <<1, 2>>, <<2, 1>>, <<1, 5>>, <<5, 6>>, <<6, 6>>, <<6, 0>>, <<0, 6>>,
       <<6, 4>>, <<4, 5>>, <<5, 4>>, <<4, 8>>, <<8, 0>>, <<0, 4>>, <<8, 2>>, <<2, 7>>,
       <<7, 1>>, <<1, 0>>, <<0, 0>>, <<0, 3>>, <<3, 4>>, <<5, 5>>, <<5, 2>>, <<2, 6>>,
       <<6, 8>>, <<8, 5>>, <<2, 5>>, <<8, 6>>, <<8, 3>>, <<3, 6>>, <<3, 0>>, <<0, 5>>,
       <<2, 0>>, <<3, 7>>, <<7, 5>>, <<3, 8>>, <<8, 7>>, <<7, 3>>, <<1, 8>>, <<8, 8>>,
       <<7, 8>>, <<1, 7>>, <<7, 7>>, <<1, 1>>, <<2, 4>> >>

GameLines == <<LineXWins, LineOWins, LineTie>>

\* moves off the game line a behaviour may hold
MaxDev == 1

\* remaining depths a search is called with: 0..MaxDepth
MaxDepth == 2

\* moves left on the game line where a search that expands is called
MaxToGo == 5

Cells == Idx \X Idx

\* the cell the mouse also clicks whoever is to move, playable or not
ProbeCells == {<<4, 4>>}

OnLine == line # 0 /\ ply < Len(GameLines[line])

\* the players may choose move c now: the next move of the line, or any move
\* while fewer than maxDev moves were played off the line and the mouse
\* holds no other cell
MayPlay(c, maxDev) ==
    \/ OnLine /\ c = GameLines[line][ply + 1]
    \/ dev < maxDev /\ (clicked = None \/ clicked = Some(c))

\* the driver after move c was chosen
Chosen(c) ==
    /\ ply' = ply + 1
    /\ IF OnLine /\ c = GameLines[line][ply + 1]
       THEN line' = line /\ dev' = dev
       ELSE line' = 0 /\ dev' = dev + 1

(***************************************************************************)
(* MorpionScene (src/src/morpion.rs) and the worker thread it spawns       *)
(***************************************************************************)

Modes == {"PvP", "PvAI", "AIvAI"}

\* MorpionScene::new, with the inputs of the behaviour chosen
Init ==
    /\ morpion = MorpionNew
    /\ turn = 1
    /\ clicked = None
    /\ ai_channel = None
    /\ ai_thread = None
    /\ workers = {}
    /\ mode \in Modes
    /\ line \in 1..Len(GameLines)
    /\ ply = 0
    /\ dev = 0
    /\ call = None
    /\ ret = None

\* the match on game_mode and morpion.player in update: TRUE when it calls
\* player_plays, FALSE when it calls ai_plays
human_to_move(game_mode, node) ==
    game_mode = "PvP" \/ (game_mode = "PvAI" /\ node.player = "X")

\* a channel id, whether a thread holds a Sender of it or not
fresh_channel_reused == CHOOSE n \in 0..Cardinality(workers) : n >= 0

\* a channel id no thread holds a Sender of
fresh_channel == CHOOSE n \in 0..Cardinality(workers) : \A w \in workers : w.tx # n

\* mouse_button_down_event: clicked = Some((ult_index, index)).  A human
\* clicks any playable cell the driver lets them play when it is their move,
\* and the probe cell (playable or not) at any time of a game that follows
\* its line.
MouseDown(c, maxDev) ==
    /\ clicked = None
    /\ \/ c \in ProbeCells /\ dev = 0
       \/ /\ morpion.state = "Continue"
          /\ human_to_move(mode, morpion)
          /\ index_is_playable(morpion, c[1], c[2])
          /\ MayPlay(c, maxDev)
    /\ clicked' = Some(c)
    /\ UNCHANGED <<morpion, turn, ai_channel, ai_thread, workers, mode, line, ply, dev, call, ret>>

\* mouse_button_up_event: clicked = None
MouseUp ==
    /\ clicked # None
    /\ clicked' = None
    /\ UNCHANGED <<morpion, turn, ai_channel, ai_thread, workers, mode, line, ply, dev, call, ret>>

\* update with an ai_plays that spawns a thread whenever try_recv returned
\* nothing, a channel existing or not
Update_spawns_while_polling(keys, maxDev, maxOrphans) ==
    LET human == human_to_move(mode, morpion)
        continue == morpion.state = "Continue"
        \* player_plays
        played == /\ continue /\ human /\ clicked # None
                  /\ index_is_playable(morpion, clicked[1][1], clicked[1][2])
        \* ai_plays, a channel exists: try_recv
        received == /\ continue /\ ~human /\ ai_channel # None
                    /\ ai_channel[1].buf # <<>>
        \* ai_plays, no channel: clone the state, open a channel, spawn the thread
        spawned == continue /\ ~human /\ ~received
        morpion1 == IF played THEN play_at(morpion, clicked[1][1], clicked[1][2])
                    ELSE IF received THEN Head(ai_channel[1].buf)
                    ELSE morpion
        turn1 == IF played \/ received THEN turn + 1 ELSE turn
        channel1 == IF received THEN None
                    ELSE IF spawned THEN Some([id |-> fresh_channel, buf |-> <<>>])
                    ELSE ai_channel
        thread1 == IF received THEN None
                   ELSE IF spawned THEN Some(fresh_channel)
                   ELSE ai_thread
        workers1 == IF spawned
                    THEN workers \cup {[tx |-> fresh_channel, current_state |-> morpion]}
                    ELSE workers
        \* self.morpion.state = self.morpion.check_playing_state()
        morpion2 == IF continue
                    THEN [morpion1 EXCEPT !.state = check_playing_state(morpion1)]
                    ELSE morpion1
        reset == IF continue THEN "Q" \in keys ELSE keys # {}
    IN  /\ played => MayPlay(clicked[1], maxDev)
        /\ reset => /\ Cardinality(workers1) <= maxOrphans
                    /\ clicked # None => clicked[1] \in ProbeCells
        /\ workers' = workers1
        /\ UNCHANGED <<clicked, call, ret>>
        /\ IF reset
           THEN /\ morpion' = MorpionReset(morpion2)
                /\ turn' = 1
                /\ ai_channel' = None
                /\ ai_thread' = None
                /\ mode' \in (IF "Q" \in keys THEN Modes ELSE {mode})
                /\ line' \in 1..Len(GameLines)
                /\ ply' = 0
                /\ dev' = 0
           ELSE /\ morpion' = morpion2
                /\ turn' = turn1
                /\ ai_channel' = channel1
                /\ ai_thread' = thread1
                /\ mode' = mode
                /\ IF played THEN Chosen(clicked[1]) ELSE UNCHANGED <<line, ply, dev>>

\* update with an ai_plays that adopts the state received and keeps
\* ai_channel and ai_thread
Update_keeps_channel(keys, maxDev, maxOrphans) ==
    LET human == human_to_move(mode, morpion)
        continue == morpion.state = "Continue"
        \* player_plays
        played == /\ continue /\ human /\ clicked # None
                  /\ index_is_playable(morpion, clicked[1][1], clicked[1][2])
        \* ai_plays, a channel exists: try_recv
        received == /\ continue /\ ~human /\ ai_channel # None
                    /\ ai_channel[1].buf # <<>>
        \* ai_plays, no channel: clone the state, open a channel, spawn the thread
        spawned == continue /\ ~human /\ ai_channel = None
        morpion1 == IF played THEN play_at(morpion, clicked[1][1], clicked[1][2])
                    ELSE IF received THEN Head(ai_channel[1].buf)
                    ELSE morpion
        turn1 == IF played \/ received THEN turn + 1 ELSE turn
        channel1 == IF received THEN Some([ai_channel[1] EXCEPT !.buf = Tail(@)])
                    ELSE IF spawned THEN Some([id |-> fresh_channel, buf |-> <<>>])
                    ELSE ai_channel
        thread1 == IF received THEN ai_thread
                   ELSE IF spawned THEN Some(fresh_channel)
                   ELSE ai_thread
        workers1 == IF spawned
                    THEN workers \cup {[tx |-> fresh_channel, current_state |-> morpion]}
                    ELSE workers
        \* self.morpion.state = self.morpion.check_playing_state()
        morpion2 == IF continue
                    THEN [morpion1 EXCEPT !.state = check_playing_state(morpion1)]
                    ELSE morpion1
        reset == IF continue THEN "Q" \in keys ELSE keys # {}
    IN  /\ played => MayPlay(clicked[1], maxDev)
        /\ reset => /\ Cardinality(workers1) <= maxOrphans
                    /\ clicked # None => clicked[1] \in ProbeCells
        /\ workers' = workers1
        /\ UNCHANGED <<clicked, call, ret>>
        /\ IF reset
           THEN /\ morpion' = MorpionReset(morpion2)
                /\ turn' = 1
                /\ ai_channel' = None
                /\ ai_thread' = None
                /\ mode' \in (IF "Q" \in keys THEN Modes ELSE {mode})
                /\ line' \in 1..Len(GameLines)
                /\ ply' = 0
                /\ dev' = 0
           ELSE /\ morpion' = morpion2
                /\ turn' = turn1
                /\ ai_channel' = channel1
                /\ ai_thread' = thread1
                /\ mode' = mode
                /\ IF played THEN Chosen(clicked[1]) ELSE UNCHANGED <<line, ply, dev>>

\* update calling ai_plays whatever the state of the game
Update_searches_when_over(keys, maxDev, maxOrphans) ==
    LET human == human_to_move(mode, morpion)
        continue == morpion.state = "Continue"
        \* player_plays
        played == /\ continue /\ human /\ clicked # None
                  /\ index_is_playable(morpion, clicked[1][1], clicked[1][2])
        \* ai_plays, a channel exists: try_recv
        received == /\ continue /\ ~human /\ ai_channel # None
                    /\ ai_channel[1].buf # <<>>
        \* ai_plays, no channel: clone the state, open a channel, spawn the thread
        spawned == ~human /\ ai_channel = None
        morpion1 == IF played THEN play_at(morpion, clicked[1][1], clicked[1][2])
                    ELSE IF received THEN Head(ai_channel[1].buf)
                    ELSE morpion
        turn1 == IF played \/ received THEN turn + 1 ELSE turn
        channel1 == IF received THEN None
                    ELSE IF spawned THEN Some([id |-> fresh_channel, buf |-> <<>>])
                    ELSE ai_channel
        thread1 == IF received THEN None
                   ELSE IF spawned THEN Some(fresh_channel)
                   ELSE ai_thread
        workers1 == IF spawned
                    THEN workers \cup {[tx |-> fresh_channel, current_state |-> morpion]}
                    ELSE workers
        \* self.morpion.state = self.morpion.check_playing_state()
        morpion2 == IF continue
                    THEN [morpion1 EXCEPT !.state = check_playing_state(morpion1)]
                    ELSE morpion1
        reset == IF continue THEN "Q" \in keys ELSE keys # {}
    IN  /\ played => MayPlay(clicked[1], maxDev)
        /\ reset => /\ Cardinality(workers1) <= maxOrphans
                    /\ clicked # None => clicked[1] \in ProbeCells
        /\ workers' = workers1
        /\ UNCHANGED <<clicked, call, ret>>
        /\ IF reset
           THEN /\ morpion' = MorpionReset(morpion2)
                /\ turn' = 1
                /\ ai_channel' = None
                /\ ai_thread' = None
                /\ mode' \in (IF "Q" \in keys THEN Modes ELSE {mode})
                /\ line' \in 1..Len(GameLines)
                /\ ply' = 0
                /\ dev' = 0
           ELSE /\ morpion' = morpion2
                /\ turn' = turn1
                /\ ai_channel' = channel1
                /\ ai_thread' = thread1
                /\ mode' = mode
                /\ IF played THEN Chosen(clicked[1]) ELSE UNCHANGED <<line, ply, dev>>

\* update with a player_plays that plays the cell clicked, playable or not
Update_plays_any_click(keys, maxDev, maxOrphans) ==
    LET human == human_to_move(mode, morpion)
        continue == morpion.state = "Continue"
        \* player_plays
        played == continue /\ human /\ clicked # None
        \* ai_plays, a channel exists: try_recv
        received == /\ continue /\ ~human /\ ai_channel # None
                    /\ ai_channel[1].buf # <<>>
        \* ai_plays, no channel: clone the state, open a channel, spawn the thread
        spawned == continue /\ ~human /\ ai_channel = None
        morpion1 == IF played THEN play_at(morpion, clicked[1][1], clicked[1][2])
                    ELSE IF received THEN Head(ai_channel[1].buf)
                    ELSE morpion
        turn1 == IF played \/ received THEN turn + 1 ELSE turn
        channel1 == IF received THEN None
                    ELSE IF spawned THEN Some([id |-> fresh_channel, buf |-> <<>>])
                    ELSE ai_channel
        thread1 == IF received THEN None
                   ELSE IF spawned THEN Some(fresh_channel)
                   ELSE ai_thread
        workers1 == IF spawned
                    THEN workers \cup {[tx |-> fresh_channel, current_state |-> morpion]}
                    ELSE workers
        \* self.morpion.state = self.morpion.check_playing_state()
        morpion2 == IF continue
                    THEN [morpion1 EXCEPT !.state = check_playing_state(morpion1)]
                    ELSE morpion1
        reset == IF continue THEN "Q" \in keys ELSE keys # {}
    IN  /\ played => MayPlay(clicked[1], maxDev)
        /\ reset => /\ Cardinality(workers1) <= maxOrphans
                    /\ clicked # None => clicked[1] \in ProbeCells
        /\ workers' = workers1
        /\ UNCHANGED <<clicked, call, ret>>
        /\ IF reset
           THEN /\ morpion' = MorpionReset(morpion2)
                /\ turn' = 1
                /\ ai_channel' = None
                /\ ai_thread' = None
                /\ mode' \in (IF "Q" \in keys THEN Modes ELSE {mode})
                /\ line' \in 1..Len(GameLines)
                /\ ply' = 0
                /\ dev' = 0
           ELSE /\ morpion' = morpion2
                /\ turn' = turn1
                /\ ai_channel' = channel1
                /\ ai_thread' = thread1
                /\ mode' = mode
                /\ IF played THEN Chosen(clicked[1]) ELSE UNCHANGED <<line, ply, dev>>

\* One iteration of the loop of MorpionScene::update with the keys in `keys`
\* pressed: the branch for the state, player_plays or ai_plays, the
\* recomputation of the state, and MorpionScene::reset on R or Q.  Q returns
\* to the menu, where the next game's mode is chosen.  Bounds on the inputs:
\* a human move is one the driver allows; R and Q are pressed while at most
\* maxOrphans searches would be left running and the mouse is up or on a
\* probe cell.
Update(keys, maxDev, maxOrphans) ==
    LET human == human_to_move(mode, morpion)
        continue == morpion.state = "Continue"
        \* player_plays
        played == /\ continue /\ human /\ clicked # None
                  /\ index_is_playable(morpion, clicked[1][1], clicked[1][2])
        \* ai_plays, a channel exists: try_recv
        received == /\ continue /\ ~human /\ ai_channel # None
                    /\ ai_channel[1].buf # <<>>
        \* ai_plays, no channel: clone the state, open a channel, spawn the thread
        spawned == continue /\ ~human /\ ai_channel = None
        morpion1 == IF played THEN play_at(morpion, clicked[1][1], clicked[1][2])
                    ELSE IF received THEN Head(ai_channel[1].buf)
                    ELSE morpion
        turn1 == IF played \/ received THEN turn + 1 ELSE turn
        channel1 == IF received THEN None
                    ELSE IF spawned THEN Some([id |-> fresh_channel, buf |-> <<>>])
                    ELSE ai_channel
        thread1 == IF received THEN None
                   ELSE IF spawned THEN Some(fresh_channel)
                   ELSE ai_thread
        workers1 == IF spawned
                    THEN workers \cup {[tx |-> fresh_channel, current_state |-> morpion]}
                    ELSE workers
        \* self.morpion.state = self.morpion.check_playing_state()
        morpion2 == IF continue
                    THEN [morpion1 EXCEPT !.state = check_playing_state(morpion1)]
                    ELSE morpion1
        reset == IF continue THEN "Q" \in keys ELSE keys # {}
    IN  /\ played => MayPlay(clicked[1], maxDev)
        /\ reset => /\ Cardinality(workers1) <= maxOrphans
                    /\ clicked # None => clicked[1] \in ProbeCells
        /\ workers' = workers1
        /\ UNCHANGED <<clicked, call, ret>>
        /\ IF reset
           THEN /\ morpion' = MorpionReset(morpion2)
                /\ turn' = 1
                /\ ai_channel' = None
                /\ ai_thread' = None
                /\ mode' \in (IF "Q" \in keys THEN Modes ELSE {mode})
                /\ line' \in 1..Len(GameLines)
                /\ ply' = 0
                /\ dev' = 0
           ELSE /\ morpion' = morpion2
                /\ turn' = turn1
                /\ ai_channel' = channel1
                /\ ai_thread' = thread1
                /\ mode' = mode
                /\ IF played THEN Chosen(clicked[1]) ELSE UNCHANGED <<line, ply, dev>>

\* the thread ends without sending the state it computed
WorkerFinish_sends_nothing(w, maxDev) ==
    /\ w \in workers
    /\ workers' = workers \ {w}
    /\ UNCHANGED <<morpion, turn, clicked, ai_channel, ai_thread, mode,
                   line, ply, dev, call, ret>>

\* The worker thread's closure: current_state.ai_move(ai_level), then tx.send.
\* ai_move returns children[best_move_index], a member of
\* generate_children(current_state); which one depends on the search scores
\* and on the noise drawn, and the worker is modelled as returning any child
\* the driver allows.  With no child (no pair of indices passes the filter
\* of generate_children), children[0] is out of range and the thread panics.  send fails when the Receiver was dropped (the channel this
\* Sender belongs to is no longer the scene's).
WorkerFinish(w, maxDev) ==
    /\ w \in workers
    /\ workers' = workers \ {w}
    /\ UNCHANGED <<morpion, turn, clicked, ai_thread, mode, call, ret>>
    /\ IF \A c \in Cells : ~index_is_playable(w.current_state, c[1], c[2])
       THEN UNCHANGED <<ai_channel, line, ply, dev>>
       ELSE IF ai_channel # None /\ ai_channel[1].id = w.tx
       THEN \E c \in Cells :
               /\ index_is_playable(w.current_state, c[1], c[2])
               /\ MayPlay(c, maxDev)
               /\ ai_channel' = Some([ai_channel[1] EXCEPT !.buf =
                                   Append(@, play_at(w.current_state, c[1], c[2]))])
               /\ Chosen(c)
       ELSE UNCHANGED <<ai_channel, line, ply, dev>>

Keys == SUBSET {"R", "Q"}

Next ==
    \/ \E c \in Cells : MouseDown(c, MaxDev)
    \/ MouseUp
    \/ \E keys \in Keys : Update(keys, MaxDev, 0)
    \/ \E w \in workers : WorkerFinish(w, MaxDev)

Spec == Init /\ [][Next]_vars

(***************************************************************************)
(* fight (src/src/fight.rs) and a harness calling the searches             *)
(***************************************************************************)

\* One iteration of the loop of fight: morpion = morpion.ai_move(level), run
\* while the game is not over.  As in the worker, ai_move returns any child
\* the driver allows.
FightStep(maxDev) ==
    /\ ~is_over(morpion)
    /\ \E c \in Cells :
          /\ index_is_playable(morpion, c[1], c[2])
          /\ MayPlay(c, maxDev)
          /\ morpion' = play_at(morpion, c[1], c[2])
          /\ Chosen(c)
    /\ call' = None
    /\ ret' = None
    /\ UNCHANGED <<turn, clicked, ai_channel, ai_thread, workers, mode>>

\* the (alpha, beta) windows the harness calls alpha_beta with.  Calls that
\* are a cutoff (depth 0 or a terminal node) are made on every position of
\* the three game lines and with both windows; calls that expand the node are
\* made with the full window on the endgames: the positions with at most
\* MaxToGo moves of their line left.
Windows == {<<isize_MIN, isize_MAX>>, <<-40, 40>>}

\* The harness: alpha_beta and minimax called on the current node, the
\* arguments kept in call and the two results in ret.
Search(depth, window, maximizing_player, heuristic) ==
    /\ call = None
    /\ call' = Some([depth |-> depth, alpha |-> window[1], beta |-> window[2],
                     maximizing_player |-> maximizing_player, heuristic |-> heuristic])
    /\ ret' = Some([alpha_beta |-> alpha_beta(morpion, depth, window[1], window[2],
                                              maximizing_player, heuristic),
                    minimax |-> minimax(morpion, depth, maximizing_player, heuristic)])
    /\ UNCHANGED <<morpion, turn, clicked, ai_channel, ai_thread, workers, mode, line, ply, dev>>

SearchInit == Init /\ mode = "AIvAI"

SearchNext ==
    \/ FightStep(0)
    \/ \E depth \in 0..MaxDepth, window \in Windows, p \in Players, h \in Heuristics :
          /\ depth > 0 /\ ~is_over(morpion) => /\ window = <<isize_MIN, isize_MAX>>
                                              /\ OnLine
                                              /\ Len(GameLines[line]) - ply <= MaxToGo
          /\ Search(depth, window, p, h)

SearchSpec == SearchInit /\ [][SearchNext]_vars


(***************************************************************************)
(* A harness calling ai_move                                               *)
(***************************************************************************)

\* the noise draws of one call repeat with this period from child to child
NoisePeriod == 2

\* ai_move searches 5 or 6 plies deep: it is called on the positions with at
\* most MaxFree cells left to play
MaxFree == 9

\* the Free cells of the Free sub-boards
free_cells(node) ==
    Cardinality({c \in Cells : /\ node.board.states[c[1]] = "Free"
                               /\ node.board.cells[c[1]][c[2]] = "Free"})

\* the draws of noise(2) for n children
Draws(n) ==
    {[k \in 1..n |-> pattern[((k - 1) % NoisePeriod) + 1]] :
        pattern \in [1..NoisePeriod -> noise(2)]}

\* ai_move called on the current node: the arguments (with the noise drawn)
\* kept in call; the alpha_beta scores, the index chosen and the state
\* returned kept in ret.
AiMove(ai_level) ==
    /\ call = None
    /\ \E children \in {generate_children(morpion)}, scores \in {ai_scores(morpion, ai_level)} :
          \E draws \in Draws(Len(children)) :
             /\ call' = Some([ai_level |-> ai_level, draws |-> draws])
             /\ ret' = Some([scores |-> scores,
                             best_move_index |-> best_move_index(scores, draws),
                             state |-> ai_move_from(children, scores, draws)])
    /\ UNCHANGED <<morpion, turn, clicked, ai_channel, ai_thread, workers, mode, line, ply, dev>>

AiInit == Init /\ mode = "AIvAI"

\* The fight follows its line and leaves it only where ai_move is called
AiNext ==
    \/ FightStep(IF free_cells(morpion) <= MaxFree + 1 THEN MaxDev ELSE 0)
    \/ \E ai_level \in AILevels : free_cells(morpion) <= MaxFree /\ AiMove(ai_level)

AiSpec == AiInit /\ [][AiNext]_vars

(***************************************************************************)
(* The scene reset while a search is running                               *)
(***************************************************************************)

\* searches a reset may leave running
MaxOrphans == 1

\* R or Q is pressed while the AI is to move only in the first MaxResetPly
\* moves of a game
MaxResetPly == 1

\* The scene with the players on their game lines, where a reset may leave up
\* to MaxOrphans worker threads running into the games that follow.
SceneNext ==
    \/ \E c \in Cells : MouseDown(c, 0)
    \/ MouseUp
    \/ \E keys \in Keys :
          /\ (keys # {} /\ morpion.state = "Continue" /\ ~human_to_move(mode, morpion))
                => ply <= MaxResetPly
          /\ Update(keys, 0, MaxOrphans)
    \/ \E w \in workers : WorkerFinish(w, 0)

SceneSpec == Init /\ [][SceneNext]_vars

\* The scene where Q interrupts a search only when no search interrupted
\* earlier is still running.
FairSceneNext ==
    \/ \E c \in Cells : MouseDown(c, 0)
    \/ MouseUp
    \/ \E keys \in Keys :
          /\ (keys # {} /\ morpion.state = "Continue" /\ ~human_to_move(mode, morpion))
                => ply <= MaxResetPly
          /\ keys # {} =>
                \A w \in workers : ai_channel # None /\ w.tx = ai_channel[1].id
          /\ Update(keys, 0, MaxOrphans)
    \/ \E w \in workers : WorkerFinish(w, 0)

\* That scene with the update loop and the worker threads scheduled fairly:
\* the event loop calls update again and again, so a tick with no key
\* pressed comes while a channel is open, and a thread that was spawned runs
\* to its end.
FairSceneSpec ==
    /\ Init
    /\ [][FairSceneNext]_vars
    /\ WF_vars(ai_channel # None /\ Update({}, 0, MaxOrphans))
    /\ WF_vars(\E w \in workers : WorkerFinish(w, 0))

(***************************************************************************)
(* A harness calling is_won_by and check_playing_state on aggregate arrays *)
(***************************************************************************)

\* CellState
CellStates == {"Free", "Tie"} \cup {Occupied(p) : p \in Players}

\* the arrays drawn: every [CellState; 9]
Aggregates == [Idx -> CellStates]

\* a node with the aggregate states `states` and `player` to move, its other
\* fields those of Morpion::new()
node_with(states, player) ==
    [MorpionNew EXCEPT !.board.states = states, !.player = player]

\* the array drawn is kept in call
StatesInit ==
    /\ morpion = MorpionNew
    /\ turn = 1
    /\ clicked = None
    /\ ai_channel = None
    /\ ai_thread = None
    /\ workers = {}
    /\ mode = "PvP"
    /\ line = 1
    /\ ply = 0
    /\ dev = 0
    /\ call \in {Some([states |-> a]) : a \in Aggregates}
    /\ ret = None

\* is_won_by(states, player), the result kept in ret
IsWonBy(player) ==
    /\ ret = None
    /\ ret' = Some([fn |-> "is_won_by", player |-> player,
                    result |-> is_won_by(call[1].states, player)])
    /\ UNCHANGED <<morpion, turn, clicked, ai_channel, ai_thread, workers, mode, line, ply,
                   dev, call>>

\* check_playing_state on a node with these aggregate states and `player` to
\* move, the result kept in ret
CheckPlayingState(player) ==
    /\ ret = None
    /\ ret' = Some([fn |-> "check_playing_state", player |-> player,
                    result |-> check_playing_state(node_with(call[1].states, player))])
    /\ UNCHANGED <<morpion, turn, clicked, ai_channel, ai_thread, workers, mode, line, ply,
                   dev, call>>

StatesNext ==
    \/ \E player \in Players : IsWonBy(player)
    \/ \E player \in Players : CheckPlayingState(player)

StatesSpec == StatesInit /\ [][StatesNext]_vars

(***************************************************************************)
(* A harness calling evaluate_winning_sequence on 9-slot arrays            *)
(***************************************************************************)

\* evaluate_winning_sequence(states, maximizing_player), the result kept in ret
EvaluateWinningSequence(maximizing_player) ==
    /\ ret = None
    /\ ret' = Some([fn |-> "evaluate_winning_sequence",
                    maximizing_player |-> maximizing_player,
                    result |-> evaluate_winning_sequence(call[1].states, maximizing_player)])
    /\ UNCHANGED <<morpion, turn, clicked, ai_channel, ai_thread, workers, mode, line, ply,
                   dev, call>>

SequenceNext == \E maximizing_player \in Players : EvaluateWinningSequence(maximizing_player)

SequenceSpec == StatesInit /\ [][SequenceNext]_vars

(***************************************************************************)
(* A harness calling the heuristics with either maximizing player          *)
(***************************************************************************)

\* heuristic(node, maximizing_player) on the node of the fight or on one of
\* its children (children[0] stands for the node itself), the node and the
\* result kept in ret
HeuristicCall(heuristic, maximizing_player) ==
    /\ ret = None
    /\ \E children \in {generate_children(morpion)} :
          \E k \in 0..Len(children) :
             \E node \in {IF k = 0 THEN morpion ELSE children[k]} :
                ret' = Some([fn |-> heuristic,
                             maximizing_player |-> maximizing_player,
                             node |-> node,
                             result |-> heuristic_call(heuristic, node, maximizing_player)])
    /\ UNCHANGED <<morpion, turn, clicked, ai_channel, ai_thread, workers, mode, line, ply,
                   dev, call>>

\* either an array is drawn for evaluate_winning_sequence, or the fights are
\* run for the heuristics on nodes
HeuristicInit == StatesInit \/ SearchInit

HeuristicNext ==
    \/ call # None /\ \E maximizing_player \in Players :
                         EvaluateWinningSequence(maximizing_player)
    \/ call = None /\ FightStep(0)
    \/ call = None /\ \E heuristic \in Heuristics, maximizing_player \in Players :
                         HeuristicCall(heuristic, maximizing_player)

HeuristicSpec == HeuristicInit /\ [][HeuristicNext]_vars

(***************************************************************************)
(* A harness calling the searches on a node held by address                *)
(***************************************************************************)

\* the heap of a call: the node of the fight and another game alive beside it
HeapBefore == <<MorpionNew, morpion>>

\* the address of the node of the fight in HeapBefore
NodeAddr == Len(HeapBefore)

\* what a call leaves in ret: the heap at the return, the addresses of the
\* children returned (generate_children), the value returned (alpha_beta) or
\* the address returned (ai_move), None when there is none; `touched` is the
\* address of a child the caller changed afterwards, and `before` the heap
\* before that change
Returned(heap, children, result) ==
    Some([heap |-> heap, children |-> children, result |-> result,
          touched |-> 0, before |-> heap])

\* generate_children(&node)
HeapGenerateChildren ==
    /\ call = None
    /\ call' = Some([fn |-> "generate_children", heap |-> HeapBefore, node |-> NodeAddr])
    /\ \E generated \in {generate_children_in(HeapBefore, NodeAddr)} :
          ret' = Returned(generated.heap, generated.children, None)
    /\ UNCHANGED <<morpion, turn, clicked, ai_channel, ai_thread, workers, mode, line, ply, dev>>

\* minimax(&node, depth, ..)
HeapMinimax(depth) ==
    /\ call = None
    /\ call' = Some([fn |-> "minimax", heap |-> HeapBefore, node |-> NodeAddr,
                     depth |-> depth])
    /\ ret' = Returned(minimax_in(HeapBefore, NodeAddr, depth), <<>>, None)
    /\ UNCHANGED <<morpion, turn, clicked, ai_channel, ai_thread, workers, mode, line, ply, dev>>

\* alpha_beta(&node, depth, isize::MIN, isize::MAX, maximizing_player, heuristic)
HeapAlphaBeta(depth, maximizing_player, heuristic) ==
    /\ call = None
    /\ call' = Some([fn |-> "alpha_beta", heap |-> HeapBefore, node |-> NodeAddr,
                     depth |-> depth, maximizing_player |-> maximizing_player,
                     heuristic |-> heuristic])
    /\ \E r \in {alpha_beta_in(HeapBefore, NodeAddr, depth, isize_MIN, isize_MAX,
                               maximizing_player, heuristic)} :
          ret' = Returned(r.heap, <<>>, Some(r.value))
    /\ UNCHANGED <<morpion, turn, clicked, ai_channel, ai_thread, workers, mode, line, ply, dev>>

\* node.ai_move(ai_level)
HeapAiMove(ai_level) ==
    /\ call = None
    /\ \E searched \in {ai_move_searched(HeapBefore, NodeAddr, ai_level)} :
          \E draws \in Draws(Len(searched.children)) :
             /\ call' = Some([fn |-> "ai_move", heap |-> HeapBefore, node |-> NodeAddr,
                              ai_level |-> ai_level, draws |-> draws])
             /\ \E r \in {ai_move_return(Len(HeapBefore), searched, draws)} :
                   ret' = Returned(r.heap, <<>>, r.result)
    /\ UNCHANGED <<morpion, turn, clicked, ai_channel, ai_thread, workers, mode, line, ply, dev>>

\* The caller of generate_children changes the n-th child of the Vec it got:
\* it plays the child's first playable cell, or resets the child.
HeapTouchChild(n, how) ==
    /\ call # None
    /\ call[1].fn = "generate_children"
    /\ ret[1].touched = 0
    /\ n \in 1..Len(ret[1].children)
    /\ \E heap \in {ret[1].heap}, child \in {ret[1].children[n]} :
          /\ how = "play_at" => heap[child].state = "Continue"
          /\ \E after \in {IF how = "play_at"
                           THEN LET c == SelectSeq(LoopPairs,
                                                   LAMBDA p : index_is_playable(heap[child],
                                                                                p[1], p[2]))[1]
                                IN  play_at_mut(heap, child, c[1], c[2])
                           ELSE reset_mut(heap, child)} :
                ret' = Some([ret[1] EXCEPT !.heap = after, !.touched = child,
                                           !.before = heap])
    /\ UNCHANGED <<morpion, turn, clicked, ai_channel, ai_thread, workers, mode, line, ply, dev,
                   call>>

HeapInit == Init /\ mode = "AIvAI"

\* The fight follows its lines; the searches that expand the node are called
\* on the endgames as in SearchNext, ai_move where few cells are left.
HeapNext ==
    \/ FightStep(0)
    \/ HeapGenerateChildren
    \/ \E depth \in 0..MaxDepth :
          /\ depth > 0 /\ ~is_over(morpion) => /\ OnLine
                                              /\ Len(GameLines[line]) - ply <= MaxToGo
          /\ HeapMinimax(depth)
    \/ \E depth \in 0..MaxDepth, p \in Players, h \in Heuristics :
          /\ depth > 0 /\ ~is_over(morpion) => /\ OnLine
                                              /\ Len(GameLines[line]) - ply <= MaxToGo
          /\ HeapAlphaBeta(depth, p, h)
    \/ \E ai_level \in AILevels : free_cells(morpion) <= MaxFree /\ HeapAiMove(ai_level)
    \/ \E n \in 1..81, how \in {"play_at", "reset"} : HeapTouchChild(n, how)

HeapSpec == HeapInit /\ [][HeapNext]_vars

(***************************************************************************)
(* fight played to its end                                                 *)
(***************************************************************************)

\* the child ai_move returns once the players have left the game line:
\* always the first of the children, or always the last
Policies == {"first", "last"}

\* the (i, j) pair of the first and of the last child generate_children pushes
policy_pair(node, policy) ==
    LET playable == SelectSeq(LoopPairs, LAMBDA c : index_is_playable(node, c[1], c[2]))
    IN  playable[IF policy = "first" THEN 1 ELSE Len(playable)]

\* One iteration of the loop of fight where ai_move returns the child of the
\* policy; the policy, once taken, is kept in call to the end of the game.
FightPolicy(policy) ==
    /\ ~is_over(morpion)
    /\ call = None \/ call = Some([policy |-> policy])
    /\ \E c \in Cells :
          /\ index_is_playable(morpion, c[1], c[2])
          /\ c = policy_pair(morpion, policy)
          /\ morpion' = play_at(morpion, c[1], c[2])
    /\ call' = Some([policy |-> policy])
    /\ ply' = ply + 1
    /\ line' = 0
    /\ UNCHANGED <<turn, clicked, ai_channel, ai_thread, workers, mode, dev, ret>>

\* if morpion.is_over() { break morpion.state }: fight returns the state
FightReturn ==
    /\ is_over(morpion)
    /\ ret = None
    /\ ret' = Some([fn |-> "fight", result |-> morpion.state])
    /\ UNCHANGED <<morpion, turn, clicked, ai_channel, ai_thread, workers, mode, line, ply,
                   dev, call>>

FightInit == Init /\ mode = "AIvAI"

FightNext ==
    \/ call = None /\ FightStep(0)
    \/ \E policy \in Policies : FightPolicy(policy)
    \/ FightReturn

\* fight is a loop of one thread: it takes its next step as long as it has one
FightSpec == FightInit /\ [][FightNext]_vars /\ WF_vars(FightNext)

(***************************************************************************)
(* Properties of the rules engine, checked on the scene (Spec).            *)
(***************************************************************************)

\* The eight lines of a 3x3 grid: rows, columns, diagonals
Lines ==
    {<<0, 1, 2>>, <<3, 4, 5>>, <<6, 7, 8>>, <<0, 3, 6>>, <<1, 4, 7>>, <<2, 5, 8>>,
     <<0, 4, 8>>, <<2, 4, 6>>}

\* player p occupies the three slots of one line of the array a
HasLine(a, p) ==
    \E l \in Lines : a[l[1]] = Occupied(p) /\ a[l[2]] = Occupied(p) /\ a[l[3]] = Occupied(p)

\* C1: every sub-board's aggregate state is determined by its nine cells:
\* Occupied(p) exactly when p has a line in the sub-board, Tie exactly when
\* the nine cells are all non-Free and neither player has a line, Free
\* otherwise.
C1_AggregateFromCells ==
    \A i \in Idx :
        LET cells == morpion.board.cells[i]
            state == morpion.board.states[i]
            full == \A k \in Idx : cells[k] # "Free"
            decided == HasLine(cells, "X") \/ HasLine(cells, "O")
        IN  /\ \A p \in Players : state = Occupied(p) <=> HasLine(cells, p)
            /\ state = "Tie" <=> (full /\ ~decided)
            /\ state = "Free" <=> (~full /\ ~decided)

\* a game in which sub-boards have been won by X, won by O and tied
C1_Witness ==
    /\ \E i \in Idx : morpion.board.states[i] = "Tie"
    /\ \E i \in Idx : morpion.board.states[i] = "OccX"
    /\ \E i \in Idx : morpion.board.states[i] = "OccO"

\* the playing state computed from the nine aggregate states alone
StateFromScratch(states) ==
    IF HasLine(states, "X") THEN "WinX"
    ELSE IF HasLine(states, "O") THEN "WinO"
    ELSE IF \A i \in Idx : states[i] # "Free" THEN "Tie"
    ELSE "Continue"

\* C2: the stored playing state is the one a recomputation from scratch
\* gives (Win(p) if p has a line of sub-boards, else Tie iff no aggregate is
\* Free, else Continue), recomputing it with check_playing_state changes
\* nothing, and at most one player has a line of sub-boards.
C2_StateFromBoard ==
    /\ ~(HasLine(morpion.board.states, "X") /\ HasLine(morpion.board.states, "O"))
    /\ morpion.state = StateFromScratch(morpion.board.states)
    /\ check_playing_state(morpion) = morpion.state

\* a game between a human and the AI that has ended in a tie
C2_Witness == mode = "PvAI" /\ turn > 1 /\ morpion.state = "Tie"

\* the playable pairs of a node
PlayablePairs(node) == {c \in Cells : index_is_playable(node, c[1], c[2])}

\* Walking the pairs numbered lo..hi in lexicographic order (pair k is
\* (k div 9, k mod 9)) with children[n] the next child to account for: each
\* playable pair must be the one the next child played.  The result is the
\* child to account for after the walk, or 0 once a child does not match;
\* after the 81 pairs it is Len(children) + 1 when no child is left over.
RECURSIVE NextChild(_, _, _, _, _)

NextChild(node, children, lo, hi, n) ==
    IF n = 0
    THEN 0
    ELSE IF lo = hi
    THEN IF index_is_playable(node, lo \div 9, lo % 9)
         THEN IF n <= Len(children) /\ children[n] = play_at(node, lo \div 9, lo % 9)
              THEN n + 1
              ELSE 0
         ELSE n
    ELSE LET mid == (lo + hi) \div 2
             first == NextChild(node, children, lo, mid, n)
         IN  IF first = 0 THEN 0 ELSE NextChild(node, children, mid + 1, hi, first)

\* C3: generate_children returns one child per playable pair and nothing
\* else, in lexicographic (sub-board, cell) order, each child equal to
\* play_at applied to the node for that pair.
C3_ChildrenArePlayablePairs ==
    LET children == generate_children(morpion)
    IN  Len(children) <= 81 /\ NextChild(morpion, children, 0, 80, 1) = Len(children) + 1

\* the player may play in several sub-boards but not in all of them
C3_Witness ==
    /\ morpion.focused_big_cell = None
    /\ \E i \in Idx : morpion.board.states[i] # "Free"
    /\ Len(generate_children(morpion)) > 9

\* C4: a pair is playable exactly when the sub-board's aggregate is Free, the
\* cell is Free and the focus is None or that sub-board; no cell of a
\* decided sub-board is playable.
C4_PlayableIff ==
    /\ \A c \in Cells :
           index_is_playable(morpion, c[1], c[2])
               <=> /\ morpion.board.states[c[1]] = "Free"
                   /\ morpion.board.cells[c[1]][c[2]] = "Free"
                   /\ (morpion.focused_big_cell = None
                          \/ morpion.focused_big_cell = Some(c[1]))
    /\ \A sub \in Idx :
           morpion.board.states[sub] \in {"Tie", "OccX", "OccO"}
               => \A cell \in Idx : ~index_is_playable(morpion, sub, cell)

\* the player is free to choose a sub-board and a won sub-board has a Free cell
C4_Witness ==
    /\ morpion.state = "Continue"
    /\ morpion.focused_big_cell = None
    /\ \E c \in Cells : /\ morpion.board.states[c[1]] \in {"OccX", "OccO"}
                         /\ morpion.board.cells[c[1]][c[2]] = "Free"

\* C5: the move that occupies (sub, cell) leaves the focus Some(cell) when
\* the aggregate of sub-board `cell` is Free after the move and None
\* otherwise; X playing (4, 4) on the empty board leaves cells[4][4]
\* Occupied(X), states[4] Free, the focus Some(4) and O to play.
C5_FocusAfterMove ==
    [][ /\ morpion'.board.cells # morpion.board.cells
              => \A c \in Cells :
                    (morpion.board.cells[c[1]][c[2]] = "Free"
                        /\ morpion'.board.cells[c[1]][c[2]] # "Free")
                    => morpion'.focused_big_cell
                         = IF morpion'.board.states[c[2]] = "Free"
                           THEN Some(c[2]) ELSE None
        /\ (morpion = MorpionNew /\ morpion'.board.cells[4][4] # "Free")
              => /\ morpion'.board.cells[4][4] = "OccX"
                 /\ morpion'.board.states[4] = "Free"
                 /\ morpion'.focused_big_cell = Some(4)
                 /\ morpion'.player = "O" ]_vars

\* the last move of the game line was played in the cell whose index is its
\* own sub-board's, decided that sub-board and left no focus
C5_Witness ==
    /\ line # 0
    /\ ply >= 1
    /\ LET c == GameLines[line][ply]
       IN  /\ c[1] = c[2]
           /\ morpion.board.cells[c[1]][c[2]] # "Free"
           /\ morpion.board.states[c[1]] # "Free"
           /\ morpion.focused_big_cell = None
           /\ Cardinality({d \in Cells : morpion.board.cells[d[1]][d[2]] # "Free"}) = ply

\* C6: while the game continues the player to move has a playable pair, and
\* a focused sub-board is undecided and has a Free cell.
C6_ContinueHasMove ==
    morpion.state = "Continue"
        => /\ \E c \in Cells : index_is_playable(morpion, c[1], c[2])
           /\ morpion.focused_big_cell # None
                 => LET f == morpion.focused_big_cell[1]
                    IN  /\ morpion.board.states[f] = "Free"
                        /\ \E k \in Idx : morpion.board.cells[f][k] = "Free"

\* the game continues after a move that sent the player to a tied sub-board
C6_Witness ==
    /\ morpion.state = "Continue"
    /\ morpion.focused_big_cell = None
    /\ line # 0
    /\ ply >= 1
    /\ morpion.board.states[GameLines[line][ply][2]] = "Tie"
    /\ Cardinality({d \in Cells : morpion.board.cells[d[1]][d[2]] # "Free"}) = ply

\* C7: generate_children returns no child exactly when the node is terminal:
\* an empty list when the state is Tie or Win(_), a non-empty one when it is
\* Continue.
C7_NoChildIffTerminal ==
    (Len(generate_children(morpion)) = 0) <=> (morpion.state # "Continue")

(***************************************************************************)
(* Properties of the searches, checked on the search harness (SearchSpec): *)
(* `call` holds the arguments of a search of `morpion` and `ret` what      *)
(* alpha_beta and minimax returned for them.                               *)
(***************************************************************************)

SetMax(S) == CHOOSE x \in S : \A y \in S : y <= x

SetMin(S) == CHOOSE x \in S : \A y \in S : x <= y

\* The unpruned minimax value of a node when a cutoff is worth
\* heuristic(node) * (remaining depth + 1)
RECURSIVE ScaledMinimax(_, _, _, _)

ScaledMinimax(node, depth, maximizing_player, heuristic) ==
    IF node.state # "Continue" \/ depth = 0
    THEN heuristic_call(heuristic, node, maximizing_player) * (depth + 1)
    ELSE LET values == {ScaledMinimax(play_at(node, c[1], c[2]), depth - 1,
                                      maximizing_player, heuristic) :
                           c \in PlayablePairs(node)}
         IN  IF node.player = maximizing_player
             THEN SetMax(values \cup {isize_MIN})
             ELSE SetMin(values \cup {isize_MAX})

FullWindow == call # None /\ call[1].alpha = isize_MIN /\ call[1].beta = isize_MAX

\* the static evaluation heuristic(node, maximizing_player) of the call
StaticValue == heuristic_call(call[1].heuristic, morpion, call[1].maximizing_player)

\* C8 as stated: with the full window alpha_beta returns the same score as
\* minimax, for every node, depth, maximizing player and heuristic.
C8_SameScoreAsMinimax ==
    FullWindow => ret[1].alpha_beta.value = ret[1].minimax.value

\* C8, amended: with the full window alpha_beta returns the score of an
\* unpruned minimax whose cutoffs are worth heuristic * (remaining depth + 1);
\* at depth 0 that is the score minimax returns.
C8_SameScoreAsScaledMinimax ==
    FullWindow =>
        /\ ret[1].alpha_beta.value
              = ScaledMinimax(morpion, call[1].depth, call[1].maximizing_player,
                              call[1].heuristic)
        /\ call[1].depth = 0 => ret[1].alpha_beta.value = ret[1].minimax.value

\* a search two plies deep in which alpha_beta cut branches minimax visited
C8_Witness ==
    /\ FullWindow
    /\ call[1].depth >= 2
    /\ morpion.state = "Continue"
    /\ ret[1].alpha_beta.expanded > 1
    /\ ret[1].alpha_beta.evaluated < ret[1].minimax.evaluated

\* C9: a depth-0 call of minimax and of alpha_beta, on any node and with any
\* window, returns exactly heuristic(node, maximizing_player) and generates
\* no child.
C9_DepthZeroIsStatic ==
    (call # None /\ call[1].depth = 0) =>
        /\ ret[1].minimax = [value |-> StaticValue, expanded |-> 0, evaluated |-> 1]
        /\ ret[1].alpha_beta = [value |-> StaticValue, expanded |-> 0, evaluated |-> 1]

\* a depth-0 call on a running game whose static value lies outside the window
C9_Witness ==
    /\ call # None
    /\ call[1].depth = 0
    /\ morpion.state = "Continue"
    /\ StaticValue > call[1].beta

\* C10 as stated: on a terminal node, with any remaining depth, minimax and
\* alpha_beta return heuristic(node, maximizing_player) without expanding
\* children.
C10_TerminalIsStatic ==
    (call # None /\ morpion.state # "Continue") =>
        /\ ret[1].minimax = [value |-> StaticValue, expanded |-> 0, evaluated |-> 1]
        /\ ret[1].alpha_beta = [value |-> StaticValue, expanded |-> 0, evaluated |-> 1]

\* C10, amended: on a terminal node, with any remaining depth, neither
\* search expands children; minimax returns heuristic(node,
\* maximizing_player) and alpha_beta returns it times (depth + 1).
C10_TerminalIsCutoff ==
    (call # None /\ morpion.state # "Continue") =>
        /\ ret[1].minimax = [value |-> StaticValue, expanded |-> 0, evaluated |-> 1]
        /\ ret[1].alpha_beta
              = [value |-> StaticValue * (call[1].depth + 1), expanded |-> 0,
                 evaluated |-> 1]

\* a won game searched with depth left, some cells still being playable
C10_Witness ==
    /\ call # None
    /\ call[1].depth >= 1
    /\ morpion.state \in {"WinX", "WinO"}
    /\ PlayablePairs(morpion) # {}
    /\ StaticValue # 0

(***************************************************************************)
(* ai_move (AiSpec)                                                        *)
(***************************************************************************)
\* the children of the node ai_move was called on
AiChildren == generate_children(morpion)

\* C11: on a node whose state is Continue, with any AILevel and any noise,
\* ai_move does not index past the end of the children list, and the state
\* it returns is a member of generate_children(node): the node after one
\* legal move of node.player.
C11_ReturnsAChild ==
    (call # None /\ morpion.state = "Continue") =>
        \A children \in {AiChildren} :
            /\ ret[1].state # Panic
            /\ ret[1].best_move_index \in 0..(Len(children) - 1)
            /\ \E n \in 1..Len(children) : ret[1].state = children[n]
            /\ \E c \in PlayablePairs(morpion) :
                  /\ ret[1].state.board.cells[c[1]][c[2]] = Occupied(morpion.player)
                  /\ ret[1].state = play_at(morpion, c[1], c[2])

\* ai_move returned a child other than the first of three or more
C11_Witness ==
    /\ call # None
    /\ morpion.state = "Continue"
    /\ Len(AiChildren) >= 3
    /\ ret[1].best_move_index >= 1
    /\ ret[1].state = AiChildren[ret[1].best_move_index + 1]

\* the final score of the n-th child of the call: 11 times its alpha_beta
\* score plus its noise draw
AiFinal(n) == 11 * ret[1].scores[n] + call[1].draws[n]

\* the children whose final score is the greatest
AiTop ==
    {n \in 1..Len(ret[1].scores) : \A k \in 1..Len(ret[1].scores) : AiFinal(k) <= AiFinal(n)}

\* the (sub, cell) pair played from the node to one of its children
AiPlayed(child) ==
    CHOOSE c \in Cells : /\ morpion.board.cells[c[1]][c[2]] = "Free"
                         /\ child.board.cells[c[1]][c[2]] # "Free"

\* C12: ai_move returns the child with the greatest final score, and among
\* several children with that final score the one generated first, in
\* (sub, cell) order.
C12_FirstGreatest ==
    (call # None /\ Len(ret[1].scores) > 0) =>
        \A children \in {AiChildren}, top \in {AiTop}, best \in {ret[1].best_move_index + 1} :
            /\ Len(children) = Len(ret[1].scores)
            /\ best \in top
            /\ \A n \in top : best <= n
            /\ \A played \in {AiPlayed(children[best])} :
                  \A n \in top \ {best} :
                     \A later \in {AiPlayed(children[n])} :
                        \/ played[1] < later[1]
                        \/ played[1] = later[1] /\ played[2] < later[2]
            /\ ret[1].state = children[best]

\* several children share the greatest final score, and the child returned
\* is not the first of the list
C12_Witness ==
    /\ call # None
    /\ Cardinality(AiTop) >= 2
    /\ Len(ret[1].scores) > Cardinality(AiTop)
    /\ ret[1].best_move_index >= 1
    /\ ret[1].state = AiChildren[ret[1].best_move_index + 1]

\* isize, as far as the model represents it
isize_range == isize_MIN..isize_MAX

\* the values `score += score * 10 + noise(2)` computes on the way
no_overflow(score, draw) ==
    /\ score * 10 \in isize_range
    /\ score * 10 + draw \in isize_range
    /\ final_score(score, draw) \in isize_range

\* no heuristic exceeds this in absolute value: every sub-board won by one
\* player under the heavier weights, or the game won
HeuristicBound ==
    max(WINNING_WEIGHT, max(50 * sum9(WEIGHTS_CENTER), 50 * sum9(WEIGHTS_CORNER)))

abs(x) == IF x >= 0 THEN x ELSE -x

\* C13: a child with a strictly greater alpha_beta score has a strictly
\* greater final score whatever the two noise draws are, so the child
\* returned has the greatest alpha_beta score; the scores stay within
\* (depth + 1) times the greatest heuristic, and nothing computed from them
\* leaves isize.
C13_ScalingKeepsOrder ==
    (call # None /\ Len(ret[1].scores) > 0) =>
        LET scores == ret[1].scores
            best == ret[1].best_move_index + 1
        IN  /\ \A a, b \in 1..Len(scores) :
                  scores[a] > scores[b] =>
                      \A da, db \in noise(2) :
                          final_score(scores[a], da) > final_score(scores[b], db)
            /\ \A n \in 1..Len(scores) : scores[n] <= scores[best]
            /\ \A n \in 1..Len(scores) :
                  /\ abs(scores[n]) <= (level_depth(call[1].ai_level) + 1) * HeuristicBound
                  /\ \A d \in noise(2) : no_overflow(scores[n], d)
            /\ \A d \in noise(2) :
                  /\ no_overflow(7 * HeuristicBound, d)
                  /\ no_overflow(-7 * HeuristicBound, d)

\* the child returned drew the least noise; a child whose alpha_beta score
\* is lower by less than the width of the noise drew more
C13_Witness ==
    /\ call # None
    /\ Len(ret[1].scores) >= 3
    /\ LET scores == ret[1].scores
           draws == call[1].draws
           best == ret[1].best_move_index + 1
       IN  /\ draws[best] = -2
           /\ \E b \in 1..Len(scores) : scores[b] < scores[best] /\ draws[b] = 1
           /\ \E a, b \in 1..Len(scores) :
                 /\ scores[a] > scores[b]
                 /\ scores[a] - scores[b] <= 3
                 /\ draws[a] < draws[b]

\* the same draw k of noise(2) for each of n children
FixedNoise(n, k) == [j \in 1..n |-> k]

Live(w, channel) == channel # None /\ channel[1].id = w.tx

\* the searches of the current game: the threads still running that can
\* send to the scene, and the results sent and not yet received
InFlight == Cardinality({w \in workers : Live(w, ai_channel)})
            + (IF ai_channel = None THEN 0 ELSE Len(ai_channel[1].buf))

\* C15: at most one search of the current game is in flight; a thread is
\* spawned only by a step that finds ai_channel None and leaves it Some, one
\* thread per step, and while ai_channel is Some no step spawns: the
\* channel stays until its result is adopted or the scene is reset.
C15_OneSearchInFlight ==
    /\ [](InFlight <= 1)
    /\ [](ai_channel # None <=> ai_thread # None)
    /\ [][/\ workers' \ workers # {} =>
                /\ ai_channel = None
                /\ InFlight = 0
                /\ Cardinality(workers' \ workers) = 1
                /\ ai_channel' # None => \A w \in workers' \ workers : Live(w, ai_channel')
          /\ ai_channel # None =>
                /\ workers' \subseteq workers
                /\ \/ ai_channel' = None
                   \/ ai_channel' # None /\ ai_channel'[1].id = ai_channel[1].id]_vars

\* a search of the current game runs beside one that a reset left running
C15_Witness ==
    /\ Cardinality(workers) = 2
    /\ InFlight = 1
    /\ ai_channel # None
    /\ ai_channel[1].buf = <<>>
    /\ turn >= 2

\* C16, the states: while a channel exists the AI is to move in a game
\* that continues, a thread of the current game still running was handed
\* the current state, and a result waiting in the channel is the current
\* state after one legal move of the player to move.
C16_SnapshotIsCurrent ==
    /\ \A w \in workers : Live(w, ai_channel) => w.current_state = morpion
    /\ ai_channel # None =>
          /\ morpion.state = "Continue"
          /\ ~human_to_move(mode, morpion)
          /\ \A k \in 1..Len(ai_channel[1].buf) :
                \E c \in PlayablePairs(morpion) :
                   ai_channel[1].buf[k] = play_at(morpion, c[1], c[2])

\* C16: an update that finds a result in the channel adopts it and clears
\* ai_channel and ai_thread (and leaves the empty game of a reset when Q is
\* pressed as well); the state adopted is the state replaced after one legal
\* move of its player to move, that state being the snapshot the worker was
\* handed, and turn increases by 1.  While the AI is to move nothing but an
\* adoption or a reset changes the game state.
C16_AdoptsOneMoveAfterSnapshot ==
    /\ []C16_SnapshotIsCurrent
    /\ [][/\ (ai_channel # None /\ ai_channel[1].buf # <<>>
              /\ clicked' = clicked /\ workers' = workers) =>
                /\ ai_channel' = None
                /\ ai_thread' = None
                /\ \/ /\ morpion' = MorpionNew
                      /\ turn' = 1
                   \/ /\ morpion'.board = Head(ai_channel[1].buf).board
                      /\ morpion'.player = other(morpion.player)
                      /\ morpion'.focused_big_cell = Head(ai_channel[1].buf).focused_big_cell
                      /\ morpion'.state = check_playing_state(morpion')
                      /\ \E c \in PlayablePairs(morpion) :
                            morpion' = play_at(morpion, c[1], c[2])
                      /\ turn' = turn + 1
          /\ (morpion' # morpion /\ ~human_to_move(mode, morpion)) =>
                \/ morpion' = MorpionNew /\ turn' = 1
                \/ /\ ai_channel # None
                   /\ morpion' = Head(ai_channel[1].buf)
                   /\ turn' = turn + 1]_vars

\* a result of the search waits in the channel, in a PvAI game, the mouse
\* held down on a cell
C16_Witness ==
    /\ mode = "PvAI"
    /\ ai_channel # None
    /\ ai_channel[1].buf # <<>>
    /\ clicked # None
    /\ turn >= 4

\* C17: a thread whose channel the scene no longer holds (reset dropped it)
\* never holds the Sender of a channel the scene opens later; when it
\* finishes, its send fails: the channel, the game state and turn stay as
\* they are.  A reset leaves every thread it does not stop in that
\* position, and the only results that enter a channel are moves from the
\* current state, sent by the thread that was handed it.
C17_ResetDropsResult ==
    [][/\ \A w \in workers :
             ~Live(w, ai_channel) =>
                /\ w \in workers' => ~Live(w, ai_channel')
                /\ w \notin workers' => /\ ai_channel' = ai_channel
                                        /\ morpion' = morpion
                                        /\ turn' = turn
       /\ (turn' = 1 /\ (turn > 1 \/ (ai_channel # None /\ ai_channel' = None))) =>
             /\ ai_channel' = None
             /\ morpion' = MorpionNew
             /\ \A w \in workers' : ~Live(w, ai_channel')
       /\ (ai_channel' # None /\ ai_channel'[1].buf # <<>>) =>
             /\ ai_channel # None
             /\ ai_channel'[1].id = ai_channel[1].id
             /\ ai_channel[1].buf = <<>> =>
                   \E w \in workers \ workers' :
                      /\ Live(w, ai_channel)
                      /\ w.current_state = morpion
                      /\ \E c \in PlayablePairs(w.current_state) :
                            ai_channel'[1].buf
                               = <<play_at(w.current_state, c[1], c[2])>>]_vars

\* a search that a reset left running outlives moves of the next game: its
\* snapshot, taken after the first move of the earlier game, is no state
\* the new game reaches from where it is
C17_Witness ==
    /\ turn >= 3
    /\ \E w \in workers :
          /\ ~Live(w, ai_channel)
          /\ w.current_state # MorpionNew
          /\ w.current_state.board.cells # morpion.board.cells
          /\ \E c \in Cells : /\ w.current_state.board.cells[c[1]][c[2]] # "Free"
                              /\ morpion.board.cells[c[1]][c[2]] = "Free"

(***************************************************************************)
(* is_won_by and check_playing_state on aggregate arrays (StatesSpec)      *)
(***************************************************************************)
\* the eight lines of a 3 x 3 grid
WinningLines ==
    {{0, 1, 2}, {3, 4, 5}, {6, 7, 8}, {0, 3, 6}, {1, 4, 7}, {2, 5, 8}, {0, 4, 8}, {2, 4, 6}}

\* the three slots of some line of the array a are all Occupied(p)
LineOf(a, p) == \E l \in WinningLines : \A k \in l : a[k] = Occupied(p)

\* the array a with every slot that is not Occupied(p) made Free
OnlySlotsOf(a, p) == [k \in Idx |-> IF a[k] = Occupied(p) THEN a[k] ELSE "Free"]

\* C18: is_won_by(states, p) is true iff the three slots of one of the eight
\* lines are all Occupied(p); the slots that are Tie, Free or Occupied by
\* the other player do not count: the result is the same with all of them
\* Free.
C18_WonIffLine ==
    (ret # None /\ ret[1].fn = "is_won_by") =>
        /\ ret[1].result = LineOf(call[1].states, ret[1].player)
        /\ ret[1].result = is_won_by(OnlySlotsOf(call[1].states, ret[1].player),
                                     ret[1].player)
        /\ Cardinality({k \in Idx : call[1].states[k] = Occupied(ret[1].player)}) < 3
              => ~ret[1].result

\* an array with Tie slots and slots of the other player, won through the
\* line 2, 4, 6
C18_Witness ==
    /\ ret # None
    /\ ret[1].fn = "is_won_by"
    /\ ret[1].result
    /\ \A k \in {2, 4, 6} : call[1].states[k] = Occupied(ret[1].player)
    /\ \E k \in Idx : call[1].states[k] = "Tie"
    /\ \E k \in Idx : call[1].states[k] = Occupied(other(ret[1].player))
    /\ Cardinality({k \in Idx : call[1].states[k] = Occupied(ret[1].player)}) = 3

\* [X, X, X, Free, Free, Free, Free, Free, Free]
TopRowOfX == [k \in Idx |-> IF k \in {0, 1, 2} THEN Occupied("X") ELSE "Free"]

\* C19 as stated: when the aggregate states hold a completed line of p (and
\* none of the other player), is_won_by(states, p) is true and
\* check_playing_state reports Win(p), whoever is to move.
C19_WinWhoeverIsToMove ==
    ret # None =>
        \A p \in Players :
            (LineOf(call[1].states, p) /\ ~LineOf(call[1].states, other(p))) =>
                /\ (ret[1].fn = "is_won_by" /\ ret[1].player = p) => ret[1].result
                /\ ret[1].fn = "check_playing_state" => ret[1].result = Win(p)

\* C19, amended: when the aggregate states hold a completed line of p,
\* is_won_by(states, p) is true; check_playing_state reports Win(p) exactly
\* when p is the player who has just moved, the other of the player to
\* move, and never a win of the player to move.  On [X, X, X, Free, ...] it
\* reports Win(X) with O to move and Continue with X to move.
C19_WinOfPlayerWhoMoved ==
    ret # None =>
        /\ ret[1].fn = "is_won_by" =>
              (LineOf(call[1].states, ret[1].player) => ret[1].result)
        /\ ret[1].fn = "check_playing_state" =>
              /\ ret[1].result = Win(other(ret[1].player))
                    <=> LineOf(call[1].states, other(ret[1].player))
              /\ ret[1].result # Win(ret[1].player)
              /\ call[1].states = TopRowOfX =>
                    ret[1].result = (IF ret[1].player = "O" THEN Win("X") ELSE "Continue")

\* check_playing_state on [X, X, X, Free, ...] with O to move
C19_Witness ==
    /\ ret # None
    /\ ret[1].fn = "check_playing_state"
    /\ call[1].states = TopRowOfX
    /\ ret[1].player = "O"
    /\ ret[1].result = Win("X")

\* the empty game, written out: 81 Free cells, 9 Free aggregate states, X to
\* move, Continue, no focused sub-board
EmptyGame ==
    [board |-> [cells |-> [i \in 0..8 |-> [j \in 0..8 |-> "Free"]],
                states |-> [i \in 0..8 |-> "Free"]],
     player |-> "X",
     state |-> "Continue",
     focused_big_cell |-> <<>>]

\* a step in which MorpionScene::reset ran: turn falls back to 1, or the
\* driver starts a game anew
IsReset == (turn' = 1 /\ turn > 1) \/ ply' < ply \/ line' # line \/ mode' # mode

\* C20: Morpion::new() is the empty game; Morpion::reset yields it from the
\* state the scene is in and from the state of every running search; a step
\* in which MorpionScene::reset ran leaves the empty game, turn 1 and neither
\* channel nor thread.
C20_ResetIsNew ==
    /\ [](/\ MorpionNew = EmptyGame
          /\ MorpionReset(morpion) = EmptyGame
          /\ \A w \in workers : MorpionReset(w.current_state) = EmptyGame)
    /\ [][IsReset => /\ morpion' = EmptyGame
                     /\ turn' = 1
                     /\ ai_channel' = None
                     /\ ai_thread' = None]_vars

\* the scene just reset during a search, some moves into a game: the thread
\* is still running
C20_Witness ==
    /\ morpion = EmptyGame
    /\ turn = 1
    /\ ply = 0
    /\ ai_channel = None
    /\ ai_thread = None
    /\ \E w \in workers : w.current_state.focused_big_cell # None

(***************************************************************************)
(* The board during play (Spec)                                            *)
(***************************************************************************)
\* the nodes of a state: the game, the snapshots the worker threads hold and
\* the results waiting in the channel
LiveNodes ==
    {morpion} \cup {w.current_state : w \in workers}
    \cup (IF ai_channel = None THEN {}
          ELSE {ai_channel[1].buf[k] : k \in 1..Len(ai_channel[1].buf)})

\* C21: no interior cell is Tie: the cells are Free or Occupied, and Tie
\* appears in the aggregate states only.
C21_NoTieCell ==
    \A node \in LiveNodes :
        \A i \in Idx : \A j \in Idx :
            node.board.cells[i][j] \in {"Free", Occupied("X"), Occupied("O")}

\* a sub-board is Tie and its nine cells are Occupied, by both players
C21_Witness ==
    \E i \in Idx :
        /\ morpion.board.states[i] = "Tie"
        /\ \A j \in Idx : morpion.board.cells[i][j] \in {Occupied("X"), Occupied("O")}
        /\ \E j, k \in Idx : /\ morpion.board.cells[i][j] = Occupied("X")
                             /\ morpion.board.cells[i][k] = Occupied("O")

\* C28: a focused sub-board is Free and has a Free cell; the focus never
\* names a won or a tied sub-board.
C28_FocusIsOpen ==
    \A node \in LiveNodes :
        node.focused_big_cell # None =>
            /\ node.focused_big_cell[1] \in Idx
            /\ node.board.states[node.focused_big_cell[1]] = "Free"
            /\ \E j \in Idx : node.board.cells[node.focused_big_cell[1]][j] = "Free"

\* the focused sub-board has one Free cell left, while a won sub-board still
\* has Free cells
C28_Witness ==
    /\ morpion.focused_big_cell # None
    /\ Cardinality({j \in Idx : morpion.board.cells[morpion.focused_big_cell[1]][j] = "Free"}) = 1
    /\ \E k \in Idx :
          /\ morpion.board.states[k] \in {Occupied("X"), Occupied("O")}
          /\ \E j \in Idx : morpion.board.cells[k][j] = "Free"

\* the cells of the node Occupied by player p
marks(node, p) ==
    Cardinality({c \in Cells : node.board.cells[c[1]][c[2]] = Occupied(p)})

\* C29: the players alternate from X: X has as many marks as O when X is to
\* move and one more when O is to move, in every mode.
C29_PlayersAlternate ==
    \A node \in LiveNodes :
        marks(node, "X") - marks(node, "O") = (IF node.player = "X" THEN 0 ELSE 1)

\* an AIvAI game after an odd number of moves
C29_Witness ==
    /\ mode = "AIvAI"
    /\ morpion.player = "O"
    /\ marks(morpion, "X") >= 3
    /\ marks(morpion, "O") = marks(morpion, "X") - 1

\* C30: a step that changes the board, other than a reset, is one legal
\* move: exactly one cell, a Free cell of a Free sub-board, becomes Occupied
\* by the player to move, and no aggregate state changes but, possibly, that
\* sub-board's, from Free.  So no mark is erased or overwritten, and a
\* sub-board that is Occupied or Tie keeps its aggregate state and its nine
\* cells until a reset.
C30_OneCellOneState ==
    [][(morpion'.board # morpion.board /\ morpion' # MorpionNew) =>
          /\ \E c \in Cells :
                /\ morpion.board.cells[c[1]][c[2]] = "Free"
                /\ morpion.board.states[c[1]] = "Free"
                /\ morpion'.board.cells
                      = [morpion.board.cells EXCEPT ![c[1]][c[2]] = Occupied(morpion.player)]
                /\ \A k \in Idx \ {c[1]} : morpion'.board.states[k] = morpion.board.states[k]
          /\ \A i \in Idx : \A j \in Idx :
                morpion.board.cells[i][j] # "Free"
                   => morpion'.board.cells[i][j] = morpion.board.cells[i][j]
          /\ \A i \in Idx :
                morpion.board.states[i] # "Free"
                   => /\ morpion'.board.states[i] = morpion.board.states[i]
                      /\ morpion'.board.cells[i] = morpion.board.cells[i]]_vars

\* a game going on with a won sub-board and a tied one, the won one with
\* Free cells left
C30_Witness ==
    /\ morpion.state = "Continue"
    /\ \E i \in Idx : morpion.board.states[i] = "Tie"
    /\ \E i \in Idx :
          /\ morpion.board.states[i] \in {Occupied("X"), Occupied("O")}
          /\ Cardinality({j \in Idx : morpion.board.cells[i][j] = "Free"}) >= 2

(***************************************************************************)
(* The heuristics and the cutoffs of the searches (SearchSpec)             *)
(***************************************************************************)
\* the sum of w[k] over the indices k of the set S
RECURSIVE WeightOf(_, _)

WeightOf(S, w) ==
    IF S = {} THEN 0
    ELSE LET k == CHOOSE x \in S : TRUE IN w[k] + WeightOf(S \ {k}, w)

\* what player p holds on the node under the weights w: 50 times the weight
\* of each sub-board whose aggregate state is Occupied(p), and the weight of
\* each cell Occupied(p) inside a Free sub-board
Holding(node, p, w) ==
    50 * WeightOf({i \in Idx : node.board.states[i] = Occupied(p)}, w)
    + WeightOf(Idx,
               [i \in Idx |->
                   IF node.board.states[i] = "Free"
                   THEN WeightOf({j \in Idx : node.board.cells[i][j] = Occupied(p)}, w)
                   ELSE 0])

\* the value the claim gives the weighted heuristic
WeightedValue(node, m, w) ==
    CASE node.state = "WinX" -> IF m = "X" THEN 10000 ELSE -10000
      [] node.state = "WinO" -> IF m = "O" THEN 10000 ELSE -10000
      [] node.state = "Tie" -> 0
      [] node.state = "Continue" -> Holding(node, m, w) - Holding(node, other(m), w)

\* the weights of corner_heuristic and of center_heuristic, by sub-board or cell
CornerWeights == [k \in Idx |-> IF k = 4 THEN 15 ELSE IF k \in {0, 2, 6, 8} THEN 45 ELSE 10]

CenterWeights == [k \in Idx |-> IF k = 4 THEN 45 ELSE IF k \in {0, 2, 6, 8} THEN 40 ELSE 10]

\* C23: corner_heuristic and center_heuristic return dir(winner) * 10000 on
\* a Win node, 0 on a Tie node, and on a Continue node the sum over the
\* sub-boards of dir(p) * 50 * weight[sub] for a sub-board Occupied(p), of
\* dir(p) * weight[cell] over the Occupied(p) cells of a Free sub-board, and
\* of nothing for a Tie sub-board.
C23_WeightedHeuristic ==
    (call # None /\ call[1].depth = 0 /\ call[1].heuristic \in {"corner", "center"}) =>
        ret[1].minimax.value
           = WeightedValue(morpion, call[1].maximizing_player,
                           IF call[1].heuristic = "corner" THEN CornerWeights
                                                           ELSE CenterWeights)

\* a running game with a won sub-board, a tied one and marks in Free ones,
\* evaluated for the player behind
C23_Witness ==
    /\ call # None
    /\ call[1].depth = 0
    /\ call[1].heuristic = "center"
    /\ morpion.state = "Continue"
    /\ \E i \in Idx : morpion.board.states[i] = "Tie"
    /\ \E i \in Idx : morpion.board.states[i] = Occupied(other(call[1].maximizing_player))
    /\ \E i, j \in Idx : /\ morpion.board.states[i] = "Free"
                         /\ morpion.board.cells[i][j] = Occupied(call[1].maximizing_player)
    /\ ret[1].minimax.value < 0

\* C25: on every node, terminal or not, everywhere_heuristic(node, m) is
\* winning_sequence_heuristic(node, m) + 2 * dir(node.player, m) when no
\* sub-board is focused, and winning_sequence_heuristic(node, m) when one is.
C25_EverywhereIsSequencePlusBonus ==
    (call # None /\ call[1].depth = 0 /\ call[1].heuristic = "everywhere") =>
        LET m == call[1].maximizing_player
            sequence == winning_sequence_heuristic(morpion, m)
        IN  IF morpion.focused_big_cell = None
            THEN ret[1].minimax.value = sequence + (IF morpion.player = m THEN 2 ELSE -2)
            ELSE ret[1].minimax.value = sequence

\* a game that is over with no sub-board focused, evaluated for the player
\* who is not to move: the bonus is all there is
C25_Witness ==
    /\ call # None
    /\ call[1].depth = 0
    /\ call[1].heuristic = "everywhere"
    /\ morpion.state # "Continue"
    /\ morpion.focused_big_cell = None
    /\ morpion.player # call[1].maximizing_player
    /\ winning_sequence_heuristic(morpion, call[1].maximizing_player) = 0
    /\ ret[1].minimax.value = -2

\* the value alpha_beta returns on the node of the call with d plies left
CutoffAt(d) ==
    alpha_beta(morpion, d, call[1].alpha, call[1].beta, call[1].maximizing_player,
               call[1].heuristic).value

\* C27: at a cutoff alpha_beta returns heuristic(node, maximizing_player)
\* times (remaining depth + 1), the factor being 1 at depth 0: on a game won
\* by the maximizing player each ply of depth left makes the value strictly
\* greater, on a game it lost strictly smaller.
C27_CutoffScaledByDepth ==
    (call # None /\ (morpion.state # "Continue" \/ call[1].depth = 0)) =>
        /\ ret[1].alpha_beta.value = StaticValue * (call[1].depth + 1)
        /\ CutoffAt(0) = StaticValue
        /\ \A d \in 1..call[1].depth :
              /\ CutoffAt(d) - CutoffAt(d - 1) = StaticValue
              /\ morpion.state = Win(call[1].maximizing_player)
                    => CutoffAt(d) > CutoffAt(d - 1) /\ CutoffAt(d - 1) > 0
              /\ morpion.state = Win(other(call[1].maximizing_player))
                    => CutoffAt(d) < CutoffAt(d - 1) /\ CutoffAt(d - 1) < 0

\* a game the maximizing player lost, searched with two plies or more left
C27_Witness ==
    /\ call # None
    /\ call[1].depth >= 2
    /\ morpion.state = Win(other(call[1].maximizing_player))
    /\ ret[1].alpha_beta.value <= -3 * WINNING_WEIGHT + 6
    /\ ret[1].alpha_beta.value < ret[1].minimax.value

(***************************************************************************)
(* evaluate_winning_sequence (SequenceSpec)                                *)
(***************************************************************************)
\* the marks of player p on the line l of the array a
OnLineOf(a, l, p) == Cardinality({k \in l : a[k] = Occupied(p)})

\* the directional sum of the line l of the array a for maximizing player m
LineSum(a, l, m) == OnLineOf(a, l, m) - OnLineOf(a, l, other(m))

\* the lines of the array a holding two marks of p and no mark of the other
\* player
OpenPairs(a, p) ==
    {l \in WinningLines : OnLineOf(a, l, p) = 2 /\ OnLineOf(a, l, other(p)) = 0}

\* the sum of f[l] over the lines l of the set S
RECURSIVE SumLines(_, _)

SumLines(S, f) ==
    IF S = {} THEN 0
    ELSE LET l == CHOOSE x \in S : TRUE IN f[l] + SumLines(S \ {l}, f)

\* C24 as stated: each of the 8 lines contributes double its directional sum
\* when that sum is even, and nothing otherwise.
C24_DoubleOfEvenLines ==
    ret # None =>
        ret[1].result
           = SumLines(WinningLines,
                      [l \in WinningLines |->
                          LET sum == LineSum(call[1].states, l, ret[1].maximizing_player)
                          IN  IF sum % 2 = 0 THEN 2 * sum ELSE 0])

\* C24, amended: each of the 8 lines contributes its directional sum when
\* that sum is even, and nothing otherwise; the result is twice the lines
\* with two marks of the maximizing player and none of the other, minus
\* twice the lines with two marks of the other player and none of the
\* maximizing player: lines with one mark, with three, or with marks of both
\* players change nothing.
C24_EvenLines ==
    ret # None =>
        LET a == call[1].states
            m == ret[1].maximizing_player
        IN  /\ ret[1].result
                  = SumLines(WinningLines,
                             [l \in WinningLines |->
                                 IF LineSum(a, l, m) % 2 = 0 THEN LineSum(a, l, m) ELSE 0])
            /\ ret[1].result
                  = 2 * Cardinality(OpenPairs(a, m)) - 2 * Cardinality(OpenPairs(a, other(m)))

\* an array with a two-mark line of each player that counts, a full line, a
\* single-mark line and a two-against-one line
C24_Witness ==
    /\ ret # None
    /\ LET a == call[1].states
           m == ret[1].maximizing_player
       IN  /\ Cardinality(OpenPairs(a, m)) = 2
           /\ Cardinality(OpenPairs(a, other(m))) = 1
           /\ ret[1].result = 2
           /\ \E l \in WinningLines : OnLineOf(a, l, m) = 3
           /\ \E l \in WinningLines : OnLineOf(a, l, m) = 2 /\ OnLineOf(a, l, other(m)) = 1
           /\ \E l \in WinningLines : OnLineOf(a, l, m) + OnLineOf(a, l, other(m)) = 1
           /\ \E k \in Idx : a[k] = "Tie"

(***************************************************************************)
(* The breaks of alpha_beta (SearchSpec)                                   *)
(***************************************************************************)
\* C26: called with the full window, alpha_beta returns the value of an
\* unpruned minimax whose leaves are worth heuristic(node) * (remaining
\* depth + 1).  The breaks on value > beta and on value < alpha only spare
\* work, they never change the value at the root: alpha_beta expands and
\* evaluates no more nodes than minimax, which visits every node of the tree.
C26_BreaksKeepRootValue ==
    FullWindow =>
        /\ ret[1].alpha_beta.value
              = ScaledMinimax(morpion, call[1].depth, call[1].maximizing_player,
                              call[1].heuristic)
        /\ ret[1].alpha_beta.expanded <= ret[1].minimax.expanded
        /\ ret[1].alpha_beta.evaluated <= ret[1].minimax.evaluated

\* a full-window search from a minimizing node, two plies deep or more,
\* where alpha_beta evaluated fewer nodes than minimax and the least of the
\* children's values is not the value of the first child
C26_Witness ==
    /\ FullWindow
    /\ call[1].depth >= 2
    /\ morpion.state = "Continue"
    /\ morpion.player # call[1].maximizing_player
    /\ ret[1].alpha_beta.evaluated < ret[1].minimax.evaluated
    /\ \E c \in {CHOOSE p \in PlayablePairs(morpion) :
                     \A q \in PlayablePairs(morpion) :
                         p[1] < q[1] \/ (p[1] = q[1] /\ p[2] <= q[2])} :
          ret[1].alpha_beta.value
             < alpha_beta(play_at(morpion, c[1], c[2]), call[1].depth - 1, isize_MIN,
                          isize_MAX, call[1].maximizing_player, call[1].heuristic).value

(***************************************************************************)
(* The searches and the nodes they are given (HeapSpec)                    *)
(***************************************************************************)
\* the cells in which two nodes differ
CellsChanged(a, b) == {c \in Cells : a.board.cells[c[1]][c[2]] # b.board.cells[c[1]][c[2]]}

\* the child is the parent after one move of the parent's player on a cell
\* that was playable, and nothing else: one cell differs, the aggregate
\* differs at most in the slot of that sub-board, and player, state and focus
\* are the ones play_at derives from the move
OneMoveApart(parent, child) ==
    /\ Cardinality(CellsChanged(parent, child)) = 1
    /\ \A c \in CellsChanged(parent, child) :
          /\ index_is_playable(parent, c[1], c[2])
          /\ child.board.cells[c[1]][c[2]] = Occupied(parent.player)
          /\ \A k \in Idx \ {c[1]} : child.board.states[k] = parent.board.states[k]
          /\ child = play_at(parent, c[1], c[2])
    /\ child.player = other(parent.player)

\* C22: generate_children, minimax, alpha_beta and ai_move leave the node
\* they are given as it was (board, player, state and focus), and every
\* other object alive at the call as well; the searches free the children
\* they made, ai_move returns one new object; the children generate_children
\* returns are new objects, one per playable cell, each the parent after one
\* move and its consequences; changing one child afterwards changes neither
\* the parent nor a sibling.
C22_SearchesLeaveTheNodeAlone ==
    call # None =>
        \A before \in {call[1].heap}, after \in {ret[1].before}, fn \in {call[1].fn} :
            /\ Len(after) >= Len(before)
            /\ \A a \in 1..Len(before) : after[a] = before[a]
            /\ after[call[1].node] = morpion
            /\ fn \in {"minimax", "alpha_beta"} => Len(after) = Len(before)
            /\ fn = "alpha_beta" =>
                  ret[1].result = Some(alpha_beta(morpion, call[1].depth, isize_MIN,
                                                  isize_MAX, call[1].maximizing_player,
                                                  call[1].heuristic).value)
            /\ fn = "ai_move" =>
                  IF ret[1].result = None
                  THEN generate_children(morpion) = <<>> /\ Len(after) = Len(before)
                  ELSE /\ Len(after) = Len(before) + 1
                       /\ ret[1].result = Some(Len(before) + 1)
                       /\ OneMoveApart(morpion, after[ret[1].result[1]])
            /\ fn = "generate_children" =>
                  \A children \in {ret[1].children} :
                      /\ Len(children) = Cardinality(PlayablePairs(morpion))
                      /\ Len(after) = Len(before) + Len(children)
                      /\ \A n \in 1..Len(children) :
                            /\ children[n] = Len(before) + n
                            /\ OneMoveApart(morpion, after[children[n]])
                            /\ \A k \in 1..(n - 1) : after[children[k]] # after[children[n]]
                      /\ ret[1].touched # 0 =>
                            /\ ret[1].heap[ret[1].touched] # after[ret[1].touched]
                            /\ \A a \in 1..Len(after) :
                                  a # ret[1].touched => ret[1].heap[a] = after[a]

\* one of three or more children was changed by a further move after
\* generate_children returned it, and it was not the last of them
C22_Witness ==
    /\ call # None
    /\ call[1].fn = "generate_children"
    /\ morpion.state = "Continue"
    /\ Len(ret[1].children) >= 3
    /\ ret[1].touched # 0
    /\ ret[1].touched < Len(ret[1].heap)
    /\ ret[1].heap[ret[1].touched].player = morpion.player
    /\ Cardinality(CellsChanged(morpion, ret[1].heap[ret[1].touched])) = 2

(***************************************************************************)
(* The end of the game (FightSpec)                                         *)
(***************************************************************************)
\* the cells of the node that hold a mark
Marked(node) == {c \in Cells : node.board.cells[c[1]][c[2]] \in {Occupied(p) : p \in Players}}

\* C31: every game ends.  From Morpion::new() each move of the loop of fight
\* puts one more mark on the 81 cells, a game that is not over has a move to
\* play, so after at most 81 moves the state is Tie or Win(_), the loop ends
\* and fight returns that state, never Continue.
C31_FightEnds ==
    /\ [](/\ Cardinality(Marked(morpion)) = ply
          /\ ply <= 81
          /\ ~is_over(morpion) => /\ ply < 81
                                  /\ generate_children(morpion) # <<>>
          /\ ret # None => /\ ret[1].result = morpion.state
                           /\ ret[1].result \in {"Tie"} \cup {Win(p) : p \in Players})
    /\ [][morpion' # morpion => /\ ~is_over(morpion)
                                /\ Cardinality(Marked(morpion')) = Cardinality(Marked(morpion)) + 1
                                /\ Marked(morpion) \subseteq Marked(morpion')]_vars
    /\ <>(ret # None)

\* a fight that left its line, was played on by a policy and returned a Tie
C31_Witness ==
    /\ ret # None
    /\ ret[1].result = "Tie"
    /\ call # None
    /\ line = 0
    /\ ply > 30

(***************************************************************************)
(* The scene once the game is over, and the clicks (Spec)                  *)
(***************************************************************************)
\* C32: once the state is Tie or Win(p) the game stands still: no step
\* applies a human move, starts a search or adopts a result, so the node
\* (board, player, state, focus), the turn, the channel and the threads are
\* the same after every step, until R or Q resets the scene to the initial
\* state of MorpionScene::new.
C32_TerminalIsAbsorbing ==
    [][is_over(morpion) =>
          \/ /\ morpion' = morpion
             /\ turn' = turn
             /\ ai_channel' = ai_channel
             /\ ai_thread' = ai_thread
             /\ workers' = workers
             /\ UNCHANGED <<mode, line, ply, dev>>
          \/ /\ morpion' = MorpionNew
             /\ turn' = 1
             /\ ai_channel' = None
             /\ ai_thread' = None
             /\ workers' = workers
             /\ ply' = 0]_vars

\* the human has won against the AI with the click still held: the AI is to
\* move on a finished game
C32_Witness ==
    /\ mode = "PvAI"
    /\ morpion.state = Win("X")
    /\ morpion.player = "O"
    /\ clicked # None
    /\ ai_channel = None
    /\ turn > 20

\* the cell the mouse holds is playable on the node
ClickPlayable(node) ==
    clicked # None /\ index_is_playable(node, clicked[1][1], clicked[1][2])

\* C34: a click on a cell that is not playable (an occupied cell, a cell of
\* a sub-board already won or tied, or of a sub-board other than the focused
\* one) is ignored: while it is held on the human's move, board, player,
\* state, focus and turn stay as they are (or the scene is reset by Q); and
\* whenever the board changes on the human's move, it is by play_at on the
\* cell clicked, which was playable, and the turn count goes up by one.
C34_UnplayableClickIgnored ==
    [][(morpion.state = "Continue" /\ human_to_move(mode, morpion)) =>
          /\ (clicked # None /\ ~ClickPlayable(morpion)) =>
                \/ morpion' = morpion /\ turn' = turn
                \/ morpion' = MorpionNew /\ turn' = 1
          /\ (morpion'.board # morpion.board /\ morpion' # MorpionNew) =>
                /\ ClickPlayable(morpion)
                /\ morpion' = play_at(morpion, clicked[1][1], clicked[1][2])
                /\ turn' = turn + 1]_vars

\* the human holds a click on a Free cell of a Free sub-board while another
\* sub-board is the focused one
C34_Witness ==
    /\ morpion.state = "Continue"
    /\ human_to_move(mode, morpion)
    /\ clicked # None
    /\ morpion.board.cells[clicked[1][1]][clicked[1][2]] = "Free"
    /\ morpion.board.states[clicked[1][1]] = "Free"
    /\ morpion.focused_big_cell # None
    /\ morpion.focused_big_cell # Some(clicked[1][1])
    /\ turn > 1

ClickedCell(node) ==
    node.board.cells[clicked[1][1]][clicked[1][2]]

\* C35: a click that stays registered across several update ticks applies at
\* most one move: the tick that plays it leaves its cell not playable, and
\* while the click stays held on a cell that already bears a mark, no step
\* makes that cell playable again, for either player.
C35_HeldClickPlaysOnce ==
    [][(clicked # None /\ clicked' = clicked) =>
          /\ (ClickPlayable(morpion) /\ morpion'.board # morpion.board
                 /\ morpion' # MorpionNew) =>
                ~ClickPlayable(morpion')
          /\ ClickedCell(morpion) # "Free" => ~ClickPlayable(morpion')]_vars

(***************************************************************************)
(* The scene under fair scheduling (FairSceneSpec)                         *)
(***************************************************************************)

\* the step of update that adopts the state the worker sent: try_recv is Ok
Adopted ==
    /\ ai_channel # None
    /\ ai_channel' = None
    /\ turn' = turn + 1

\* C33: under fair scheduling of the worker thread and of the update loop,
\* every search that is started is adopted unless the scene is reset: an
\* open channel is only ever closed by a reset or by the tick that adopts
\* the worker's state, which is a child of the state searched, with the other
\* player to move and the turn count one higher; and an open channel is
\* always closed in the end, so the scene never waits forever for a worker.
C33_SearchIsAdopted ==
    /\ [][(ai_channel # None /\ ai_channel' = None) =>
             \/ /\ morpion' = MorpionNew
                /\ turn' = 1
                /\ ai_channel' = None
             \/ /\ Adopted
                /\ ~human_to_move(mode, morpion)
                /\ \E k \in 1..Len(generate_children(morpion)) :
                      /\ morpion'.board = generate_children(morpion)[k].board
                      /\ morpion'.focused_big_cell =
                            generate_children(morpion)[k].focused_big_cell
                /\ morpion'.player = other(morpion.player)
                /\ morpion'.state = check_playing_state(morpion')]_vars
    /\ (ai_channel # None) ~> (ai_channel = None)

\* the AI's move was adopted in a game against a human, after a reset left
\* an earlier search running
C33_Witness ==
    /\ mode = "PvAI"
    /\ morpion.state = "Continue"
    /\ morpion.player = "X"
    /\ ai_channel = None
    /\ turn > 2
    /\ workers # {}

(***************************************************************************)
(* The Tie rule with and without the forced sub-board (Spec)               *)
(***************************************************************************)

\* the player who has just moved holds a line of sub-boards
LastMoverWon(node) == is_won_by(node.board.states, other(node.player))

\* the sub-board the player to move is forced into has no Free cell
ForcedFull(node) ==
    /\ node.focused_big_cell # None
    /\ all_occupied(node.board.cells[node.focused_big_cell[1]])

\* the rule with the clause on the forced sub-board
ForcedClauseRule(node) ==
    IF LastMoverWon(node)
    THEN Win(other(node.player))
    ELSE IF \/ all_occupied(node.board.states)
            \/ ForcedFull(node)
            \/ \A k \in Idx : node.board.states[k] = "Free"
                                 => all_occupied(node.board.cells[k])
         THEN "Tie"
         ELSE "Continue"

\* the rule on the aggregate states alone
AggregateRule(node) ==
    IF LastMoverWon(node)
    THEN Win(other(node.player))
    ELSE IF \A k \in Idx : node.board.states[k] # "Free"
         THEN "Tie"
         ELSE "Continue"

\* C36: on every state the scene reaches (the scene's node, the nodes the
\* workers search and the nodes they send), the rule with the clause on the
\* forced sub-board and check_playing_state, which has no such clause, give
\* the same result, and both give what the aggregate states alone give: Tie
\* exactly when the last mover has no line and no aggregate state is Free.
\* The forced sub-board is never full, and a Free sub-board has a Free cell.
C36_TieRulesAgree ==
    \A node \in LiveNodes :
        /\ ForcedClauseRule(node) = check_playing_state(node)
        /\ check_playing_state(node) = AggregateRule(node)
        /\ ~ForcedFull(node)
        /\ \A k \in Idx : node.board.states[k] = "Free"
                             => ~all_occupied(node.board.cells[k])

\* a game between two humans ended in a tie with no sub-board forced: no
\* aggregate state is Free, and one sub-board is full with no winner
C36_Witness ==
    /\ mode = "PvP"
    /\ morpion.state = "Tie"
    /\ morpion.focused_big_cell = None
    /\ all_occupied(morpion.board.states)
    /\ \E k \in Idx : /\ morpion.board.states[k] = "Tie"
                      /\ all_occupied(morpion.board.cells[k])

(***************************************************************************)
(* The heuristics and the maximizing player (HeuristicSpec)                *)
(***************************************************************************)

\* C37: every heuristic is antisymmetric in the maximizing player: the value
\* returned for a node (or, by evaluate_winning_sequence, for an array) and
\* one maximizing player is the opposite of the value returned for the same
\* node (or array) and the other player.
C37_Antisymmetric ==
    ret # None =>
        IF ret[1].fn = "evaluate_winning_sequence"
        THEN ret[1].result =
                0 - evaluate_winning_sequence(call[1].states,
                                              other(ret[1].maximizing_player))
        ELSE ret[1].result =
                0 - heuristic_call(ret[1].fn, ret[1].node,
                                   other(ret[1].maximizing_player))

\* everywhere_heuristic called for O on a running game where X is to move
\* in any sub-board, a sub-board is won and another tied, and the value is
\* not zero
C37_Witness ==
    /\ ret # None
    /\ ret[1].fn = "everywhere"
    /\ ret[1].maximizing_player = "O"
    /\ ret[1].node.state = "Continue"
    /\ ret[1].node.player = "X"
    /\ ret[1].node.focused_big_cell = None
    /\ \E k \in Idx : ret[1].node.board.states[k] = "Tie"
    /\ \E k \in Idx : ret[1].node.board.states[k] = "OccX"
    /\ ret[1].result # 0

=============================================================================
